---- MODULE Spec2Model ----
(***************************************************************************)
(* Model of vk::ShaderOptimizer (icd/api/app_shader_optimizer.cpp): the    *)
(* pipeline-profile pattern matcher, the override applicators and the      *)
(* three profile builders run by Init.                                     *)
(***************************************************************************)
EXTENDS Integers, Sequences, FiniteSets, TLC

VARIABLES
    matchCall,        \* last call of ProfilePatternMatchesPipeline (inputs and result)
    applyCall,        \* last call of ApplyProfileToShaderCreateInfo on a given profile
    pc,               \* lifecycle of the ShaderOptimizer object
    m_settings,       \* runtime settings read by the builders
    env,              \* what the collaborators return during Init (allocator, file, parser)
    m_appProfile,     \* PipelineProfile built by BuildAppProfile
    m_tuningProfile,  \* PipelineProfile built by BuildTuningProfile
    m_runtimeProfile, \* PipelineProfile built by BuildRuntimeProfile
    parseErrors,      \* number of calls of RuntimeProfileParseError
    overrideCall,     \* last call of OverrideShaderCreateInfo (inputs and result)
    graphicsCall,     \* last call of ApplyProfileToGraphicsPipelineCreateInfo on a given profile
    graphicsOverride, \* last call of OverrideGraphicsPipelineCreateInfo (inputs and result)
    computeOverride,  \* last call of OverrideComputePipelineCreateInfo (inputs and result)
    freed,            \* per profile, the number of pfnFree calls on its pEntries
    threads,          \* per thread, its position in a pipeline-level override
    m_printMutex,     \* the thread holding m_printMutex, 0 when it is free
    dbgLines          \* the lines printed by Util::DbgPrintf, in order

\* The variables of the engine's pipeline-level overrides and of its teardown.
lifeVars == <<graphicsOverride, computeOverride, freed>>

\* The variables of the threads that run pipeline-level overrides side by side.
threadVars == <<threads, m_printMutex, dbgLines>>

\* The variables of the pipeline-level calls.
pipelineVars == <<graphicsCall, lifeVars, threadVars>>

vars == <<matchCall, applyCall, pc, m_settings, env, m_appProfile, m_tuningProfile,
          m_runtimeProfile, parseErrors, overrideCall, pipelineVars>>

(***************************************************************************)
(* Bounds of the model.                                                    *)
(***************************************************************************)
MaxCodeSize == 2     \* code sizes and size thresholds range over 0..MaxCodeSize
MaxValue == 2        \* numeric tuning values range over 0..MaxValue
MaxEntries == 2      \* profiles handed to the applicator hold 0..MaxEntries entries

(***************************************************************************)
(* Shader stages, in the order of the ShaderStage enum.                    *)
(***************************************************************************)
ShaderStageVertex == 0
ShaderStageTessControl == 1
ShaderStageTessEvaluation == 2
ShaderStageGeometry == 3
ShaderStageFragment == 4
ShaderStageCompute == 5
ShaderStageCount == 6
Stages == 0..(ShaderStageCount - 1)

(***************************************************************************)
(* A 64-bit hash half is kept at full width as four 16-bit words, most     *)
(* significant first; only equality is ever taken.                         *)
(***************************************************************************)
Zero64 == <<0, 0, 0, 0>>
EmptyHash == [lower |-> Zero64, upper |-> Zero64]

\* The eight fragment-shader hashes of the Dota2 table.
DotaHashes ==
    << [lower |-> <<56684, 22332, 18150, 44536>>, upper |-> <<29970, 1906, 31888, 18249>>],
       [lower |-> <<28937, 15351, 50921, 36264>>, upper |-> <<64457, 22232, 31341, 26161>>],
       [lower |-> <<60888, 39040, 56864, 37369>>, upper |-> <<20589, 2755, 39261, 12059>>],
       [lower |-> <<48216, 15152, 21118, 40733>>, upper |-> <<7928, 10093, 17057, 16928>>],
       [lower |-> <<301, 55984, 248, 1552>>,      upper |-> <<14949, 42546, 22358, 8253>>],
       [lower |-> <<30729, 23386, 53090, 62677>>, upper |-> <<11290, 64540, 28518, 40499>>],
       [lower |-> <<8832, 15111, 31112, 60470>>,  upper |-> <<31653, 1414, 49998, 5730>>],
       [lower |-> <<12605, 43919, 63808, 36256>>, upper |-> <<47889, 36945, 38053, 21637>>] >>

\* The hash the inputs are built around: the first hash of the table.
HashA == DotaHashes[1]

(***************************************************************************)
(* ShaderProfilePattern / PipelineProfilePattern / PipelineOptimizerKey.   *)
(***************************************************************************)
ZeroShaderMatch ==
    [stageActive |-> FALSE, stageInactive |-> FALSE, codeHash |-> FALSE,
     codeSizeLessThan |-> FALSE]

ZeroShaderPattern ==
    [match |-> ZeroShaderMatch, codeHash |-> EmptyHash, codeSizeLessThanValue |-> 0]

ZeroPattern ==
    [match |-> [always |-> FALSE], shaders |-> [s \in Stages |-> ZeroShaderPattern]]

ZeroShaderKey == [codeHash |-> EmptyHash, codeSize |-> 0]
ZeroKey == [shaders |-> [s \in Stages |-> ZeroShaderKey]]

\* match.u32All: the union of the test bits of one stage, as a truth value (u32All != 0).
U32AllNonZero(match) ==
    match.stageActive \/ match.stageInactive \/ match.codeHash \/ match.codeSizeLessThan

(***************************************************************************)
(* ShaderOptimizer::ProfilePatternMatchesPipeline                          *)
(***************************************************************************)
StageActiveTestFails(shaderPattern, shaderKey) ==
    shaderPattern.match.stageActive /\ (shaderKey.codeSize = 0)

StageInactiveTestFails_Never(shaderPattern, shaderKey) == FALSE

StageInactiveTestFails(shaderPattern, shaderKey) ==
    shaderPattern.match.stageInactive /\ (shaderKey.codeSize # 0)

CodeHashTestFails_LowerOnly(shaderPattern, shaderKey) ==
    shaderPattern.match.codeHash
    /\ shaderPattern.codeHash.lower # shaderKey.codeHash.lower

CodeHashTestFails(shaderPattern, shaderKey) ==
    shaderPattern.match.codeHash
    /\ (shaderPattern.codeHash.lower # shaderKey.codeHash.lower
        \/ shaderPattern.codeHash.upper # shaderKey.codeHash.upper)

CodeSizeTestFails_Strict(shaderPattern, shaderKey) ==
    shaderPattern.match.codeSizeLessThan
    /\ (shaderPattern.codeSizeLessThanValue > shaderKey.codeSize)

CodeSizeTestFails(shaderPattern, shaderKey) ==
    shaderPattern.match.codeSizeLessThan
    /\ (shaderPattern.codeSizeLessThanValue >= shaderKey.codeSize)

\* The body of the per-stage "if (u32All != 0)": TRUE when it returns false.
StageRejects(shaderPattern, shaderKey) ==
    U32AllNonZero(shaderPattern.match)
    /\ (\/ StageActiveTestFails(shaderPattern, shaderKey)
        \/ StageInactiveTestFails(shaderPattern, shaderKey)
        \/ CodeHashTestFails(shaderPattern, shaderKey)
        \/ CodeSizeTestFails(shaderPattern, shaderKey))

\* The stage loop from index `stage` on: FALSE at the first rejecting stage.
RECURSIVE MatchFromStage(_, _, _)
MatchFromStage(pattern, pipelineKey, stage) ==
    IF stage >= ShaderStageCount THEN TRUE
    ELSE IF StageRejects(pattern.shaders[stage], pipelineKey.shaders[stage]) THEN FALSE
    ELSE MatchFromStage(pattern, pipelineKey, stage + 1)

ProfilePatternMatchesPipeline_NoAlways(pattern, pipelineKey) ==
    MatchFromStage(pattern, pipelineKey, 0)

ProfilePatternMatchesPipeline_NeedsTest(pattern, pipelineKey) ==
    IF pattern.match.always THEN TRUE
    ELSE (\E s \in Stages : U32AllNonZero(pattern.shaders[s].match))
         /\ MatchFromStage(pattern, pipelineKey, 0)

ProfilePatternMatchesPipeline(pattern, pipelineKey) ==
    IF pattern.match.always THEN TRUE
    ELSE MatchFromStage(pattern, pipelineKey, 0)


(***************************************************************************)
(* ShaderProfileAction / PipelineProfileAction / PipelineProfileEntry.     *)
(* ZeroEntry is an entry of the memset-cleared backing array.              *)
(***************************************************************************)
ZeroShaderCreateApply ==
    [vgprLimit |-> FALSE, sgprLimit |-> FALSE, maxThreadGroupsPerComputeUnit |-> FALSE,
     debugMode |-> FALSE, trapPresent |-> FALSE, allowReZ |-> FALSE,
     disableLoopUnrolls |-> FALSE, fp32DenormalMode |-> FALSE, waveSize |-> FALSE,
     wgpMode |-> FALSE, waveBreakSize |-> FALSE, nggDisable |-> FALSE,
     nggFasterLaunchRate |-> FALSE, nggVertexReuse |-> FALSE,
     nggEnableFrustumCulling |-> FALSE, nggEnableBoxFilterCulling |-> FALSE,
     nggEnableSphereCulling |-> FALSE, nggEnableBackfaceCulling |-> FALSE,
     nggEnableSmallPrimFilter |-> FALSE,
     ldsSpillLimitDwords |-> FALSE, userDataSpillThreshold |-> FALSE,
     enableSelectiveInline |-> FALSE, enableSubvector |-> FALSE]

ZeroShaderTuningOptions ==
    [vgprLimit |-> 0, sgprLimit |-> 0, maxThreadGroupsPerComputeUnit |-> 0,
     fp32DenormalMode |-> 0, waveSize |-> 0, waveBreakSize |-> 0,
     ldsSpillLimitDwords |-> 0, userDataSpillThreshold |-> 0,
     useSiScheduler |-> FALSE, reconfigWorkgroupLayout |-> FALSE,
     enableLoadScalarizer |-> FALSE, forceLoopUnrollCount |-> 0,
     disableLicm |-> FALSE, unrollThreshold |-> 0]

ZeroDynamicShaderInfo ==
    [apply |-> [maxWavesPerCu |-> FALSE, cuEnableMask |-> FALSE,
                maxThreadGroupsPerCu |-> FALSE],
     maxWavesPerCu |-> 0, cuEnableMask |-> 0, maxThreadGroupsPerCu |-> 0]

ZeroShaderAction ==
    [shaderCreate |-> [apply |-> ZeroShaderCreateApply,
                       tuningOptions |-> ZeroShaderTuningOptions],
     dynamicShaderInfo |-> ZeroDynamicShaderInfo]

ZeroCreateInfoAction ==
    [apply |-> [lateAllocVsLimit |-> FALSE, binningOverride |-> FALSE],
     lateAllocVsLimit |-> 0, binningOverride |-> "Default"]

ZeroAction ==
    [shaders |-> [s \in Stages |-> ZeroShaderAction], createInfo |-> ZeroCreateInfoAction]

ZeroEntry == [pattern |-> ZeroPattern, action |-> ZeroAction]

(***************************************************************************)
(* PipelineShaderOptionsPtr: the caller's target.  isNull is               *)
(* (options.pOptions == nullptr).  The fields are those of pOptions,       *)
(* except reconfigWorkgroupLayout (of pPipelineOptions) and enableNgg ..   *)
(* enableSmallPrimFilter (of pNggState); the caller passes the three       *)
(* pointers together.  The last four fields are the compiler options the   *)
(* apply bits ldsSpillLimitDwords, userDataSpillThreshold,                 *)
(* enableSelectiveInline and enableSubvector stand for.                    *)
(***************************************************************************)
ZeroOptions ==
    [isNull |-> FALSE,
     vgprLimit |-> 0, sgprLimit |-> 0, maxThreadGroupsPerComputeUnit |-> 0,
     debugMode |-> FALSE, trapPresent |-> FALSE, allowReZ |-> FALSE,
     disableLoopUnroll |-> FALSE, useSiScheduler |-> FALSE,
     reconfigWorkgroupLayout |-> FALSE, enableLoadScalarizer |-> FALSE,
     forceLoopUnrollCount |-> 0, disableLicm |-> FALSE, unrollThreshold |-> 0,
     fp32DenormalMode |-> 0, waveSize |-> 0, wgpMode |-> FALSE, waveBreakSize |-> 0,
     enableNgg |-> TRUE, enableFastLaunch |-> FALSE, enableVertexReuse |-> FALSE,
     enableFrustumCulling |-> FALSE, enableBoxFilterCulling |-> FALSE,
     enableSphereCulling |-> FALSE, enableBackfaceCulling |-> FALSE,
     enableSmallPrimFilter |-> FALSE,
     ldsSpillLimitDwords |-> 0, userDataSpillThreshold |-> 0,
     enableSelectiveInline |-> FALSE, enableSubvector |-> FALSE]

(***************************************************************************)
(* ShaderOptimizer::ApplyProfileToShaderCreateInfo                         *)
(***************************************************************************)
\* "if (gate) { target = value; }"
Gated_Ungated(gate, value, old) == value

Gated(gate, value, old) == IF gate THEN value ELSE old

\* The body of "if (options.pOptions != nullptr)" for one matching entry.
\* preV45 is (LLPC_CLIENT_INTERFACE_MAJOR_VERSION < 45).
ApplyShaderCreate(shaderCreate, o, preV45) ==
    LET a == shaderCreate.apply
        t == shaderCreate.tuningOptions
    IN  [isNull |-> o.isNull,
         vgprLimit |-> Gated(a.vgprLimit, t.vgprLimit, o.vgprLimit),
         sgprLimit |-> Gated(a.sgprLimit, t.sgprLimit, o.sgprLimit),
         maxThreadGroupsPerComputeUnit |->
             Gated(a.maxThreadGroupsPerComputeUnit, t.maxThreadGroupsPerComputeUnit,
                   o.maxThreadGroupsPerComputeUnit),
         debugMode |-> Gated(a.debugMode, TRUE, o.debugMode),
         trapPresent |-> Gated(a.trapPresent, TRUE, o.trapPresent),
         allowReZ |-> Gated(a.allowReZ, TRUE, o.allowReZ),
         disableLoopUnroll |-> Gated(a.disableLoopUnrolls, TRUE, o.disableLoopUnroll),
         useSiScheduler |-> Gated(t.useSiScheduler, TRUE, o.useSiScheduler),
         reconfigWorkgroupLayout |->
             Gated(t.reconfigWorkgroupLayout, TRUE, o.reconfigWorkgroupLayout),
         enableLoadScalarizer |->
             Gated(t.enableLoadScalarizer, TRUE, o.enableLoadScalarizer),
         forceLoopUnrollCount |->
             Gated(t.forceLoopUnrollCount # 0, t.forceLoopUnrollCount,
                   o.forceLoopUnrollCount),
         disableLicm |-> Gated(t.disableLicm, TRUE, o.disableLicm),
         unrollThreshold |->
             Gated(t.unrollThreshold # 0, t.unrollThreshold, o.unrollThreshold),
         fp32DenormalMode |-> Gated(a.fp32DenormalMode, t.fp32DenormalMode, o.fp32DenormalMode),
         waveSize |-> Gated(a.waveSize, t.waveSize, o.waveSize),
         wgpMode |-> Gated(a.wgpMode, TRUE, o.wgpMode),
         waveBreakSize |-> Gated(a.waveBreakSize, t.waveBreakSize, o.waveBreakSize),
         enableNgg |-> Gated(a.nggDisable, FALSE, o.enableNgg),
         enableFastLaunch |->
             Gated(preV45 /\ a.nggFasterLaunchRate, TRUE, o.enableFastLaunch),
         enableVertexReuse |-> Gated(a.nggVertexReuse, TRUE, o.enableVertexReuse),
         enableFrustumCulling |->
             Gated(a.nggEnableFrustumCulling, TRUE, o.enableFrustumCulling),
         enableBoxFilterCulling |->
             Gated(a.nggEnableBoxFilterCulling, TRUE, o.enableBoxFilterCulling),
         enableSphereCulling |->
             Gated(a.nggEnableSphereCulling, TRUE, o.enableSphereCulling),
         enableBackfaceCulling |->
             Gated(a.nggEnableBackfaceCulling, TRUE, o.enableBackfaceCulling),
         enableSmallPrimFilter |->
             Gated(a.nggEnableSmallPrimFilter, TRUE, o.enableSmallPrimFilter),
         ldsSpillLimitDwords |-> o.ldsSpillLimitDwords,
         userDataSpillThreshold |-> o.userDataSpillThreshold,
         enableSelectiveInline |-> o.enableSelectiveInline,
         enableSubvector |-> o.enableSubvector]

\* One iteration of the entry loop.
ApplyEntryToShaderCreateInfo(profileEntry, pipelineKey, shaderStage, options, preV45) ==
    IF ProfilePatternMatchesPipeline(profileEntry.pattern, pipelineKey)
       /\ ~options.isNull
    THEN ApplyShaderCreate(profileEntry.action.shaders[shaderStage].shaderCreate,
                           options, preV45)
    ELSE options

\* The entry loop with a "break" after the first matching entry.
RECURSIVE ApplyFromEntry_StopAtFirstMatch(_, _, _, _, _, _)
ApplyFromEntry_StopAtFirstMatch(profile, pipelineKey, shaderStage, options, preV45, entry) ==
    IF entry >= profile.entryCount THEN options
    ELSE IF ProfilePatternMatchesPipeline(profile.pEntries[entry + 1].pattern, pipelineKey)
    THEN ApplyEntryToShaderCreateInfo(profile.pEntries[entry + 1], pipelineKey,
                                      shaderStage, options, preV45)
    ELSE ApplyFromEntry_StopAtFirstMatch(profile, pipelineKey, shaderStage, options,
                                         preV45, entry + 1)

\* The entry loop from index `entry` (0-based, as in the source) to entryCount - 1.
RECURSIVE ApplyFromEntry(_, _, _, _, _, _)
ApplyFromEntry(profile, pipelineKey, shaderStage, options, preV45, entry) ==
    IF entry >= profile.entryCount THEN options
    ELSE ApplyFromEntry(profile, pipelineKey, shaderStage,
             ApplyEntryToShaderCreateInfo(profile.pEntries[entry + 1], pipelineKey,
                                          shaderStage, options, preV45),
             preV45, entry + 1)

ApplyProfileToShaderCreateInfo(profile, pipelineKey, shaderStage, options, preV45) ==
    ApplyFromEntry(profile, pipelineKey, shaderStage, options, preV45, 0)


(***************************************************************************)
(* ShaderOptimizer::PrintProfileEntryMatch, piece by piece.  The profile   *)
(* is passed by reference and told apart by its address: profileAddr names *)
(* the member the reference is bound to.  The function takes m_printMutex, *)
(* prints a header line and one line per stage whose code size is not      *)
(* zero, and releases the mutex; those steps are the actions               *)
(* AcquirePrintMutex, PrintHeader, PrintStage and ReleasePrintMutex below. *)
(***************************************************************************)
StageName(stageIdx) ==
    CASE stageIdx = ShaderStageVertex -> "VS"
      [] stageIdx = ShaderStageTessControl -> "HS"
      [] stageIdx = ShaderStageTessEvaluation -> "DS"
      [] stageIdx = ShaderStageGeometry -> "GS"
      [] stageIdx = ShaderStageFragment -> "PS"
      [] stageIdx = ShaderStageCompute -> "CS"
      [] OTHER -> "???"

\* const char* pProfile after the address comparisons.
ProfileName(profileAddr) ==
    IF profileAddr = "m_appProfile" THEN "Application"
    ELSE IF profileAddr = "m_runtimeProfile" THEN "Runtime"
    ELSE "Unknown profile"

\* The else branch of the address comparisons: VK_NEVER_CALLED().
ProfileNeverCalled(profileAddr) ==
    ~(profileAddr = "m_appProfile") /\ ~(profileAddr = "m_runtimeProfile")

(***************************************************************************)
(* ShaderOptimizer::ApplyProfileToGraphicsPipelineCreateInfo and           *)
(* ApplyProfileToDynamicGraphicsShaderInfo: what the function writes       *)
(* through its out-parameters.  The target is the pair (pPalCreateInfo,    *)
(* pGraphicsShaderInfos).  The call of PrintProfileEntryMatch made for a   *)
(* matching entry when pipelineProfileDbgPrintProfileMatch is on writes    *)
(* nothing to the target; it is not part of these operators and is         *)
(* modelled by the step actions of SpecThreads.  entry indexes are 0-based *)
(* as in the code, pEntries is 1-based.                                    *)
(***************************************************************************)
VK_SHADER_STAGE_VERTEX_BIT == 1
VK_SHADER_STAGE_TESSELLATION_CONTROL_BIT == 2
VK_SHADER_STAGE_TESSELLATION_EVALUATION_BIT == 4
VK_SHADER_STAGE_GEOMETRY_BIT == 8
VK_SHADER_STAGE_FRAGMENT_BIT == 16

ZeroGraphicsPipelineCreateInfo ==
    [useLateAllocVsLimit |-> FALSE, lateAllocVsLimit |-> 0, binningOverride |-> "Default"]

ZeroDynamicGraphicsShaderInfos ==
    [vs |-> [cuEnableMask |-> 0], hs |-> [cuEnableMask |-> 0], ds |-> [cuEnableMask |-> 0],
     gs |-> [cuEnableMask |-> 0], ps |-> [cuEnableMask |-> 0]]

ZeroGraphicsTarget ==
    [pPalCreateInfo |-> ZeroGraphicsPipelineCreateInfo,
     pGraphicsShaderInfos |-> ZeroDynamicGraphicsShaderInfos]

HasStageBit_Always(shaderStages, bit) == TRUE

\* (shaderStages & bit) != 0 for a single-bit mask.
HasStageBit(shaderStages, bit) == ((shaderStages \div bit) % 2) = 1

ApplyProfileToDynamicGraphicsShaderInfo(action, pGraphicsShaderInfo) ==
    IF action.dynamicShaderInfo.apply.cuEnableMask
    THEN [pGraphicsShaderInfo EXCEPT !.cuEnableMask = action.dynamicShaderInfo.cuEnableMask]
    ELSE pGraphicsShaderInfo

\* The writes of the body of "if (ProfilePatternMatchesPipeline(...))" for one entry.
ApplyEntryToGraphicsPipelineCreateInfo(profileEntry, shaderStages, target) ==
    LET shaders == profileEntry.action.shaders
        createInfo == profileEntry.action.createInfo
        infos == target.pGraphicsShaderInfos
        pal == target.pPalCreateInfo
        stageInfo(bit, stage, info) ==
            IF HasStageBit(shaderStages, bit)
            THEN ApplyProfileToDynamicGraphicsShaderInfo(shaders[stage], info)
            ELSE info
    IN  [pGraphicsShaderInfos |->
            [vs |-> stageInfo(VK_SHADER_STAGE_VERTEX_BIT, ShaderStageVertex, infos.vs),
             hs |-> stageInfo(VK_SHADER_STAGE_TESSELLATION_CONTROL_BIT,
                              ShaderStageTessControl, infos.hs),
             ds |-> stageInfo(VK_SHADER_STAGE_TESSELLATION_EVALUATION_BIT,
                              ShaderStageTessEvaluation, infos.ds),
             gs |-> stageInfo(VK_SHADER_STAGE_GEOMETRY_BIT, ShaderStageGeometry, infos.gs),
             ps |-> stageInfo(VK_SHADER_STAGE_FRAGMENT_BIT, ShaderStageFragment, infos.ps)],
         pPalCreateInfo |->
            [useLateAllocVsLimit |->
                IF createInfo.apply.lateAllocVsLimit THEN TRUE ELSE pal.useLateAllocVsLimit,
             lateAllocVsLimit |->
                IF createInfo.apply.lateAllocVsLimit THEN createInfo.lateAllocVsLimit
                ELSE pal.lateAllocVsLimit,
             binningOverride |->
                IF createInfo.apply.binningOverride THEN createInfo.binningOverride
                ELSE pal.binningOverride]]

RECURSIVE ApplyGraphicsFromEntry(_, _, _, _, _)
ApplyGraphicsFromEntry(profile, pipelineKey, shaderStages, target, entry) ==
    IF ~(entry < profile.entryCount) THEN target
    ELSE LET profileEntry == profile.pEntries[entry + 1]
             after ==
                 IF ProfilePatternMatchesPipeline(profileEntry.pattern, pipelineKey)
                 THEN ApplyEntryToGraphicsPipelineCreateInfo(profileEntry, shaderStages, target)
                 ELSE target
         IN  ApplyGraphicsFromEntry(profile, pipelineKey, shaderStages, after, entry + 1)

ApplyProfileToGraphicsPipelineCreateInfo(profile, pipelineKey, shaderStages, target) ==
    ApplyGraphicsFromEntry(profile, pipelineKey, shaderStages, target, 0)

(***************************************************************************)
(* ShaderOptimizer::ApplyProfileToComputePipelineCreateInfo and            *)
(* ApplyProfileToDynamicComputeShaderInfo (whose body is empty): what the  *)
(* function writes through pDynamicComputeShaderInfo.                      *)
(***************************************************************************)
ZeroDynamicComputeShaderInfo == [maxWavesPerCu |-> 0, maxThreadGroupsPerCu |-> 0]

ZeroComputeTarget ==
    [pDynamicComputeShaderInfo |-> ZeroDynamicComputeShaderInfo]

ApplyProfileToDynamicComputeShaderInfo(action, pComputeShaderInfo) == pComputeShaderInfo

RECURSIVE ApplyComputeFromEntry(_, _, _, _)
ApplyComputeFromEntry(profile, pipelineKey, target, entry) ==
    IF ~(entry < profile.entryCount) THEN target
    ELSE LET profileEntry == profile.pEntries[entry + 1]
             after ==
                 IF ProfilePatternMatchesPipeline(profileEntry.pattern, pipelineKey)
                 THEN [pDynamicComputeShaderInfo |->
                          ApplyProfileToDynamicComputeShaderInfo(
                              profileEntry.action.shaders[ShaderStageCompute],
                              target.pDynamicComputeShaderInfo)]
                 ELSE target
         IN  ApplyComputeFromEntry(profile, pipelineKey, after, entry + 1)

ApplyProfileToComputePipelineCreateInfo(profile, pipelineKey, target) ==
    ApplyComputeFromEntry(profile, pipelineKey, target, 0)

(***************************************************************************)
(* ShaderOptimizer::OverrideGraphicsPipelineCreateInfo and                 *)
(* OverrideComputePipelineCreateInfo: the three profiles in turn.          *)
(***************************************************************************)
OverrideGraphicsPipelineCreateInfo(app, tuning, runtime, pipelineKey, shaderStages, target) ==
    LET a == ApplyProfileToGraphicsPipelineCreateInfo(app, pipelineKey, shaderStages, target)
        t == ApplyProfileToGraphicsPipelineCreateInfo(tuning, pipelineKey, shaderStages, a)
    IN  ApplyProfileToGraphicsPipelineCreateInfo(runtime, pipelineKey, shaderStages, t)

OverrideComputePipelineCreateInfo(app, tuning, runtime, pipelineKey, target) ==
    LET a == ApplyProfileToComputePipelineCreateInfo(app, pipelineKey, target)
        t == ApplyProfileToComputePipelineCreateInfo(tuning, pipelineKey, a)
    IN  ApplyProfileToComputePipelineCreateInfo(runtime, pipelineKey, t)

(***************************************************************************)
(* The body of "if (ProfilePatternMatchesPipeline(...))" in the three      *)
(* applicators, as the stores it makes.  mem holds the two objects the     *)
(* body can reach: mem.profile, the PipelineProfile its reference          *)
(* parameter is bound to, which it reads at pEntries[entry], and           *)
(* mem.target, what the caller's out-pointers point at.  The left-hand     *)
(* side of every assignment of the bodies starts at an out-pointer:        *)
(* options.pOptions->, options.pPipelineOptions->, options.pNggState->     *)
(* in ApplyProfileToShaderCreateInfo, pGraphicsShaderInfos-> and           *)
(* pPalCreateInfo-> in ApplyProfileToGraphicsPipelineCreateInfo, and       *)
(* pDynamicComputeShaderInfo in ApplyProfileToComputePipelineCreateInfo.   *)
(* The result is the memory the body leaves.                               *)
(***************************************************************************)
ShaderEntryBody(mem, entry, pipelineKey, shaderStage, preV45) ==
    [mem EXCEPT !.target =
        ApplyEntryToShaderCreateInfo(mem.profile.pEntries[entry + 1], pipelineKey,
                                     shaderStage, @, preV45)]

\* The body with the copy of the late-alloc limit written the other way round:
\* "createInfo.lateAllocVsLimit = pPalCreateInfo->lateAllocVsLimit".
GraphicsEntryBody_ReversedCopy(mem, entry, shaderStages) ==
    LET profileEntry == mem.profile.pEntries[entry + 1]
        written == ApplyEntryToGraphicsPipelineCreateInfo(profileEntry, shaderStages,
                                                          mem.target)
    IN  [mem EXCEPT
            !.target.pGraphicsShaderInfos = written.pGraphicsShaderInfos,
            !.target.pPalCreateInfo.binningOverride =
                written.pPalCreateInfo.binningOverride,
            !.target.pPalCreateInfo.useLateAllocVsLimit =
                written.pPalCreateInfo.useLateAllocVsLimit,
            !.profile.pEntries[entry + 1].action.createInfo.lateAllocVsLimit =
                IF profileEntry.action.createInfo.apply.lateAllocVsLimit
                THEN mem.target.pPalCreateInfo.lateAllocVsLimit
                ELSE @]

GraphicsEntryBody(mem, entry, shaderStages) ==
    LET profileEntry == mem.profile.pEntries[entry + 1]
        written == ApplyEntryToGraphicsPipelineCreateInfo(profileEntry, shaderStages,
                                                          mem.target)
    IN  [mem EXCEPT
            !.target.pGraphicsShaderInfos = written.pGraphicsShaderInfos,
            !.target.pPalCreateInfo = written.pPalCreateInfo]

ComputeEntryBody(mem, entry) ==
    [mem EXCEPT !.target.pDynamicComputeShaderInfo =
        ApplyProfileToDynamicComputeShaderInfo(
            mem.profile.pEntries[entry + 1].action.shaders[ShaderStageCompute], @)]

(***************************************************************************)
(* ShaderOptimizer::~ShaderOptimizer: the number of pfnFree calls made on  *)
(* the pEntries of one profile.                                            *)
(***************************************************************************)
DestructorFrees_OnlyNonEmpty(profile) ==
    IF profile.allocated /\ profile.entryCount > 0 THEN 1 ELSE 0

DestructorFrees(profile) == IF profile.allocated THEN 1 ELSE 0

(***************************************************************************)
(* PipelineProfile.  pEntries holds the first entryCount entries of the    *)
(* backing array (1-based here); the rest of the array is never read.      *)
(* allocated is (pEntries != nullptr).                                     *)
(***************************************************************************)
\* InitialPipelineProfileEntries is declared in app_shader_optimizer.h; the profiles
\* built here stay well below it.
InitialPipelineProfileEntries == 32

\* The profile slot of a call record before any call has been made.
NoProfile ==
    [allocated |-> FALSE, entryCount |-> 0, entryCapacity |-> 0, pEntries |-> << >>]

(***************************************************************************)
(* ShaderOptimizer::ShaderOptimizer initialises m_pDevice and m_settings   *)
(* only: m_appProfile, m_tuningProfile and m_runtimeProfile hold whatever  *)
(* the storage of the object held, each member and each field on its own,  *)
(* until Init builds them.  pEntries is null or not (and then points at no *)
(* entry array); entryCount and entryCapacity are each zero or not.        *)
(* 2147483647 stands for any non-zero count (two such counts need not be   *)
(* equal); the unsigned 32-bit values above it are out of the range of the *)
(* checker.                                                                *)
(***************************************************************************)
UninitializedCounts == {0, 2147483647}

UninitializedProfiles ==
    {[allocated |-> pointer, entryCount |-> count, entryCapacity |-> capacity,
      pEntries |-> << >>] :
        pointer \in BOOLEAN, count \in UninitializedCounts,
        capacity \in UninitializedCounts}

\* entryCount = 0, entryCapacity = InitialPipelineProfileEntries, pEntries = pMemory.
FreshProfile(pMemory) ==
    [allocated |-> pMemory, entryCount |-> 0,
     entryCapacity |-> InitialPipelineProfileEntries, pEntries |-> << >>]

\* i = profile.entryCount++; profile.pEntries[i] = entry;
AppendEntry(profile, entry) ==
    [profile EXCEPT !.entryCount = @ + 1, !.pEntries = Append(@, entry)]

(***************************************************************************)
(* ShaderOptimizer::BuildTuningProfile                                     *)
(***************************************************************************)
\* bool matchHash: set when either half of the configured hash is non-zero.
TuningMatchHash_LowerOnly(settings) ==
    settings.overrideShaderHashLower # Zero64

TuningMatchHash(settings) ==
    (settings.overrideShaderHashLower # Zero64)
    \/ (settings.overrideShaderHashUpper # Zero64)

\* The guard of the maxThreadGroupsPerCu override.
TuningCsTgApplies_AnyStage(settings) ==
    settings.overrideCsTgPerCu # 0

TuningCsTgApplies(settings) ==
    (settings.overrideCsTgPerCu # 0)
    /\ (settings.overrideShaderStage = ShaderStageCompute)

TuningEntry(settings) ==
    LET matchHash == TuningMatchHash(settings)
        shaderStage == settings.overrideShaderStage
        pattern ==
            [match |-> [always |-> ~matchHash],
             shaders |-> [ZeroPattern.shaders EXCEPT ![shaderStage] =
                 [match |-> [ZeroShaderMatch EXCEPT !.codeHash = matchHash],
                  codeHash |-> [lower |-> settings.overrideShaderHashLower,
                                upper |-> settings.overrideShaderHashUpper],
                  codeSizeLessThanValue |-> 0]]]
        apply ==
            [ZeroShaderCreateApply EXCEPT
                !.vgprLimit = (settings.overrideNumVGPRsAvailable # 0),
                !.ldsSpillLimitDwords = (settings.overrideMaxLdsSpillDwords # 0),
                !.userDataSpillThreshold = settings.overrideUserDataSpillThreshold,
                !.allowReZ = settings.overrideAllowReZ,
                !.enableSelectiveInline = settings.overrideEnableSelectiveInline,
                !.disableLoopUnrolls = settings.overrideDisableLoopUnrolls,
                !.waveSize = (settings.overrideWaveSize \in {"WaveSize64", "WaveSize32"}),
                !.wgpMode = (settings.overrideWgpMode = "WgpModeWgp"),
                !.nggDisable = settings.overrideUseNgg,
                !.enableSubvector = settings.overrideEnableSubvector]
        tuningOptions ==
            [ZeroShaderTuningOptions EXCEPT
                !.vgprLimit = settings.overrideNumVGPRsAvailable,
                !.ldsSpillLimitDwords = settings.overrideMaxLdsSpillDwords,
                !.userDataSpillThreshold = 0,
                !.useSiScheduler = settings.overrideUseSiScheduler,
                !.reconfigWorkgroupLayout = settings.overrideReconfigWorkgroupLayout,
                !.disableLicm = settings.overrideDisableLicm,
                !.enableLoadScalarizer = settings.overrideEnableLoadScalarizer,
                !.waveSize = CASE settings.overrideWaveSize = "WaveSize64" -> 64
                               [] settings.overrideWaveSize = "WaveSize32" -> 32
                               [] OTHER -> 0]
        csTg == TuningCsTgApplies(settings)
        dynamicShaderInfo ==
            [apply |-> [maxWavesPerCu |-> (settings.overrideWavesPerCu # 0),
                        cuEnableMask |-> FALSE,
                        maxThreadGroupsPerCu |-> csTg],
             maxWavesPerCu |-> settings.overrideWavesPerCu,
             cuEnableMask |-> 0,
             maxThreadGroupsPerCu |-> IF csTg THEN settings.overrideCsTgPerCu ELSE 0]
        binning == settings.overrideUsePbbPerCrc # "PipelineBinningModeDefault"
        createInfo ==
            [apply |-> [lateAllocVsLimit |-> FALSE, binningOverride |-> binning],
             lateAllocVsLimit |-> 0,
             binningOverride |->
                 CASE settings.overrideUsePbbPerCrc = "PipelineBinningModeEnable" -> "Enable"
                   [] settings.overrideUsePbbPerCrc = "PipelineBinningModeDisable" -> "Disable"
                   [] OTHER -> "Default"]
    IN  [pattern |-> pattern,
         action |-> [shaders |-> [ZeroAction.shaders EXCEPT ![shaderStage] =
                         [shaderCreate |-> [apply |-> apply,
                                            tuningOptions |-> tuningOptions],
                          dynamicShaderInfo |-> dynamicShaderInfo]],
                     createInfo |-> createInfo]]

BuildTuningProfile_IgnoresSwitch(settings, pMemory) ==
    IF ~pMemory THEN FreshProfile(pMemory)
    ELSE [FreshProfile(pMemory) EXCEPT !.entryCount = 1,
                                       !.pEntries = <<TuningEntry(settings)>>]

BuildTuningProfile(settings, pMemory) ==
    IF (settings.overrideShaderParams = FALSE) \/ ~pMemory
    THEN FreshProfile(pMemory)
    ELSE [FreshProfile(pMemory) EXCEPT !.entryCount = 1,
                                       !.pEntries = <<TuningEntry(settings)>>]

(***************************************************************************)
(* ShaderOptimizer::BuildAppProfile / BuildAppProfileLlpc                  *)
(***************************************************************************)
\* Pal::AsicRevision values in enum order, as far as the comparison needs them.
AsicRevisionOrder(asicRevision) ==
    CASE asicRevision = "Fiji" -> 0
      [] asicRevision = "Polaris10" -> 1
      [] asicRevision = "Polaris11" -> 2
      [] asicRevision = "Polaris12" -> 3
      [] asicRevision = "Vega10" -> 4

\* One Dota2 entry: Fragment stage active with the given code hash -> allowReZ.
DotaEntry(hash) ==
    [pattern |-> [ZeroPattern EXCEPT !.shaders[ShaderStageFragment] =
                     [match |-> [ZeroShaderMatch EXCEPT !.stageActive = TRUE,
                                                        !.codeHash = TRUE],
                      codeHash |-> hash,
                      codeSizeLessThanValue |-> 0]],
     action |-> [ZeroAction EXCEPT
                     !.shaders[ShaderStageFragment].shaderCreate.apply.allowReZ = TRUE]]

RECURSIVE AppendDotaEntries(_, _)
AppendDotaEntries(profile, i) ==
    IF i > Len(DotaHashes) THEN profile
    ELSE AppendDotaEntries(AppendEntry(profile, DotaEntry(DotaHashes[i])), i + 1)

\* m_appShaderProfile.BuildAppProfileLlpc(appProfile, gfxIpLevel, &m_appProfile):
\* the built-in table writes its entries for the application into the profile.
AppShaderProfileBuild(profile, tableEntries) ==
    [profile EXCEPT !.entryCount = Len(tableEntries), !.pEntries = tableEntries]

BuildAppProfileLlpc(profile, e) ==
    LET table == AppShaderProfileBuild(profile, e.tableEntries)
    IN  IF e.appProfile = "Dota2"
           /\ AsicRevisionOrder(e.asicRevision) >= AsicRevisionOrder("Polaris10")
           /\ AsicRevisionOrder(e.asicRevision) <= AsicRevisionOrder("Polaris12")
        THEN AppendDotaEntries(table, 1)
        ELSE table

BuildAppProfile_IgnoresSwitch(settings, e) ==
    IF e.allocApp THEN BuildAppProfileLlpc(FreshProfile(e.allocApp), e)
    ELSE FreshProfile(e.allocApp)

BuildAppProfile(settings, e) ==
    IF (settings.pipelineProfileIgnoresAppProfile = FALSE) /\ e.allocApp
    THEN BuildAppProfileLlpc(FreshProfile(e.allocApp), e)
    ELSE FreshProfile(e.allocApp)

(***************************************************************************)
(* ShaderOptimizer::BuildRuntimeProfile / RuntimeProfileParseError         *)
(***************************************************************************)
\* m_appShaderProfile.ParseJsonProfile(pJson, &m_runtimeProfile, pAllocCB): fills the
\* profile with the document's entries, up to its capacity, and reports success; a
\* document it cannot deserialize leaves the profile as it was.
ParseJsonProfile(profile, e) ==
    IF e.deserializes /\ Len(e.docEntries) <= profile.entryCapacity
    THEN [success |-> TRUE,
          profile |-> [profile EXCEPT !.entryCount = Len(e.docEntries),
                                      !.pEntries = e.docEntries]]
    ELSE [success |-> FALSE, profile |-> profile]

\* The result of BuildRuntimeProfile: the profile, and how many times
\* RuntimeProfileParseError was entered.
BuildRuntimeProfile_ErrorOnEmpty(settings, e) ==
    LET fresh == FreshProfile(e.allocRuntime)
    IN  IF ~e.allocRuntime THEN [profile |-> fresh, parseErrors |-> 0]
        ELSE IF settings.pipelineProfileRuntimeFile = "" \/ ~e.fileOpens
                \/ ~e.jsonBufferAlloc
        THEN [profile |-> fresh, parseErrors |-> 0]
        ELSE IF e.bytesRead = 0 \/ ~e.jsonParses
        THEN [profile |-> fresh, parseErrors |-> 1]
        ELSE LET r == ParseJsonProfile(fresh, e)
             IN  [profile |-> r.profile, parseErrors |-> IF r.success THEN 0 ELSE 1]

BuildRuntimeProfile(settings, e) ==
    LET fresh == FreshProfile(e.allocRuntime)
    IN  IF ~e.allocRuntime THEN [profile |-> fresh, parseErrors |-> 0]
        ELSE IF settings.pipelineProfileRuntimeFile = "" THEN [profile |-> fresh, parseErrors |-> 0]
        ELSE IF ~e.fileOpens THEN [profile |-> fresh, parseErrors |-> 0]
        ELSE IF ~e.jsonBufferAlloc THEN [profile |-> fresh, parseErrors |-> 0]
        ELSE IF ~(e.bytesRead > 0) THEN [profile |-> fresh, parseErrors |-> 0]
        ELSE IF ~e.jsonParses THEN [profile |-> fresh, parseErrors |-> 1]
        ELSE LET r == ParseJsonProfile(fresh, e)
             IN  [profile |-> r.profile, parseErrors |-> IF r.success THEN 0 ELSE 1]

(***************************************************************************)
(* ShaderOptimizer::RuntimeProfileParseError, after VK_ASSERT(false):      *)
(*   while (m_settings.pipelineProfileHaltOnParseFailure) {}               *)
(* With the switch off the function returns.  With the switch on the loop  *)
(* never ends and has no side effect, which C++ leaves undefined: a build  *)
(* that keeps the loop spins in it for ever ("halted"), a build whose      *)
(* optimizer drops the loop returns as with the switch off ("returns").    *)
(***************************************************************************)
ParseErrorOutcomes_IgnoresSwitch(settings) == {"halted", "returns"}

ParseErrorOutcomes(settings) ==
    IF settings.pipelineProfileHaltOnParseFailure THEN {"halted", "returns"}
    ELSE {"returns"}


(***************************************************************************)
(* Initial state: the ShaderOptimizer is constructed, Init has not run,    *)
(* and no call has been made.  The three profiles are uninitialised: they  *)
(* show the content of the storage the object was constructed in.          *)
(***************************************************************************)
DefaultSettings ==
    [enablePipelineProfileDumping |-> FALSE,
     pipelineProfileIgnoresAppProfile |-> FALSE,
     pipelineProfileDbgPrintProfileMatch |-> FALSE,
     pipelineProfileHaltOnParseFailure |-> FALSE,
     pipelineProfileRuntimeFile |-> "",
     overrideShaderParams |-> FALSE,
     overrideShaderHashLower |-> Zero64,
     overrideShaderHashUpper |-> Zero64,
     overrideShaderStage |-> ShaderStageVertex,
     overrideNumVGPRsAvailable |-> 0,
     overrideMaxLdsSpillDwords |-> 0,
     overrideUserDataSpillThreshold |-> FALSE,
     overrideAllowReZ |-> FALSE,
     overrideEnableSelectiveInline |-> FALSE,
     overrideDisableLoopUnrolls |-> FALSE,
     overrideUseSiScheduler |-> FALSE,
     overrideReconfigWorkgroupLayout |-> FALSE,
     overrideDisableLicm |-> FALSE,
     overrideEnableLoadScalarizer |-> FALSE,
     overrideWaveSize |-> "WaveSizeAuto",
     overrideWgpMode |-> "WgpModeAuto",
     overrideUseNgg |-> FALSE,
     overrideEnableSubvector |-> FALSE,
     overrideWavesPerCu |-> 0,
     overrideCsTgPerCu |-> 0,
     overrideUsePbbPerCrc |-> "PipelineBinningModeDefault"]

DefaultEnv ==
    [allocApp |-> TRUE, allocTuning |-> TRUE, allocRuntime |-> TRUE,
     appProfile |-> "Other", asicRevision |-> "Fiji", tableEntries |-> << >>,
     fileOpens |-> FALSE, jsonBufferAlloc |-> FALSE, bytesRead |-> 0,
     jsonParses |-> FALSE, deserializes |-> FALSE, docEntries |-> << >>]

NoMatchCall ==
    [done |-> FALSE, pattern |-> ZeroPattern, pipelineKey |-> ZeroKey, result |-> FALSE]

NoApplyCall ==
    [done |-> FALSE, profile |-> NoProfile, pipelineKey |-> ZeroKey,
     shaderStage |-> ShaderStageVertex, preV45 |-> FALSE,
     optionsIn |-> ZeroOptions, optionsOut |-> ZeroOptions]

NoGraphicsCall ==
    [done |-> FALSE, profile |-> NoProfile, pipelineKey |-> ZeroKey,
     shaderStages |-> 0, targetIn |-> ZeroGraphicsTarget, targetOut |-> ZeroGraphicsTarget]

NoGraphicsOverride ==
    [done |-> FALSE, pipelineKey |-> ZeroKey, shaderStages |-> 0,
     targetIn |-> ZeroGraphicsTarget, targetOut |-> ZeroGraphicsTarget]

NoComputeOverride ==
    [done |-> FALSE, pipelineKey |-> ZeroKey, targetIn |-> ZeroComputeTarget,
     targetOut |-> ZeroComputeTarget]

NothingFreed == [m_appProfile |-> 0, m_tuningProfile |-> 0, m_runtimeProfile |-> 0]

\* The threads that create pipelines.
Threads == {1, 2}

IdleThread ==
    [pc |-> "idle", kind |-> "none", pipelineKey |-> ZeroKey, shaderStages |-> 0,
     shaderStage |-> ShaderStageVertex, preV45 |-> FALSE,
     targetIn |-> ZeroGraphicsTarget, target |-> ZeroGraphicsTarget, profileIdx |-> 1,
     entry |-> 0, stageIdx |-> 0, made |-> << >>]

NoOverrideCall ==
    [done |-> FALSE, pipelineKey |-> ZeroKey, shaderStage |-> ShaderStageVertex,
     preV45 |-> FALSE, optionsIn |-> ZeroOptions, afterApp |-> ZeroOptions,
     afterTuning |-> ZeroOptions, optionsOut |-> ZeroOptions]

Init ==
    /\ matchCall = NoMatchCall
    /\ applyCall = NoApplyCall
    /\ pc = "constructed"
    /\ m_settings = DefaultSettings
    /\ env = DefaultEnv
    /\ m_appProfile \in UninitializedProfiles
    /\ m_tuningProfile \in UninitializedProfiles
    /\ m_runtimeProfile \in UninitializedProfiles
    /\ parseErrors = 0
    /\ overrideCall = NoOverrideCall
    /\ graphicsCall = NoGraphicsCall
    /\ graphicsOverride = NoGraphicsOverride
    /\ computeOverride = NoComputeOverride
    /\ freed = NothingFreed
    /\ threads = [t \in Threads |-> IdleThread]
    /\ m_printMutex = 0
    /\ dbgLines = << >>

(***************************************************************************)
(* ShaderOptimizer::Init.  The owner of the object calls it once, right    *)
(* after construction and before any other member function.                *)
(***************************************************************************)
\* A builder that stored entries through a null pEntries has crashed Init.
WroteThroughNull(profile) == ~profile.allocated /\ profile.entryCount > 0

\* ShaderOptimizer::Init, with the settings and the collaborators of one scenario.
InitFrom(scenarios) ==
    /\ pc = "constructed"
    /\ ~matchCall.done /\ ~applyCall.done
    /\ \E sc \in scenarios :
          LET settings == sc[1]
              e == sc[2]
              app == BuildAppProfile(settings, e)
              tuning == BuildTuningProfile(settings, e.allocTuning)
              rt == BuildRuntimeProfile(settings, e)
          IN  /\ m_settings' = settings
              /\ env' = e
              /\ m_appProfile' = app
              /\ m_tuningProfile' = tuning
              /\ m_runtimeProfile' = rt.profile
              /\ parseErrors' = rt.parseErrors
              /\ IF WroteThroughNull(app) \/ WroteThroughNull(tuning)
                    \/ WroteThroughNull(rt.profile)
                 THEN pc' = "crashed"
                 ELSE IF rt.parseErrors > 0
                 THEN \E outcome \in ParseErrorOutcomes(settings) :
                         pc' = IF outcome = "halted" THEN "halted" ELSE "ready"
                 ELSE pc' = "ready"
    /\ UNCHANGED <<matchCall, applyCall, overrideCall>>
    /\ UNCHANGED pipelineVars

\* Init with the default settings: no tuning rule, no built-in table for the
\* application, no runtime file.
CallInitDefault == InitFrom({<<DefaultSettings, DefaultEnv>>})

(***************************************************************************)
(* Specification SpecMatch: after Init, ProfilePatternMatchesPipeline (a   *)
(* private function, reached through the Override* calls only) called     *)
(* once on a pattern and a key drawn from bounded sets.                    *)
(***************************************************************************)
ShaderMatches ==
    [stageActive : BOOLEAN, stageInactive : BOOLEAN, codeHash : BOOLEAN,
     codeSizeLessThan : BOOLEAN]

PatternHashes == {EmptyHash, HashA}

KeyHashes == [lower : {Zero64, HashA.lower}, upper : {Zero64, HashA.upper}]

ShaderPatterns ==
    [match : ShaderMatches, codeHash : PatternHashes,
     codeSizeLessThanValue : 0..MaxCodeSize]

ShaderKeys == [codeHash : KeyHashes, codeSize : 0..MaxCodeSize]

\* A second tested stage next to the first: none, or an exact-hash test.
SecondShaderPatterns ==
    {ZeroShaderPattern,
     [match |-> [ZeroShaderMatch EXCEPT !.codeHash = TRUE], codeHash |-> HashA,
      codeSizeLessThanValue |-> 0]}

SecondShaderKeys == {ZeroShaderKey, [codeHash |-> HashA, codeSize |-> 1]}

NextStage(s) == (s + 1) % ShaderStageCount

CallMatch ==
    /\ pc = "ready"
    /\ ~matchCall.done
    /\ \E s \in Stages, always \in BOOLEAN, p1 \in ShaderPatterns,
          p2 \in SecondShaderPatterns, k1 \in ShaderKeys, k2 \in SecondShaderKeys :
          LET pattern == [match |-> [always |-> always],
                          shaders |-> [ZeroPattern.shaders EXCEPT
                                          ![s] = p1, ![NextStage(s)] = p2]]
              pipelineKey == [shaders |-> [ZeroKey.shaders EXCEPT
                                              ![s] = k1, ![NextStage(s)] = k2]]
          IN  matchCall' = [done |-> TRUE, pattern |-> pattern,
                            pipelineKey |-> pipelineKey,
                            result |-> ProfilePatternMatchesPipeline(pattern, pipelineKey)]
    /\ UNCHANGED <<applyCall, pc, m_settings, env, m_appProfile, m_tuningProfile,
                   m_runtimeProfile, parseErrors, overrideCall>>
    /\ UNCHANGED pipelineVars

NextMatch ==
    \/ CallInitDefault
    \/ CallMatch

SpecMatch == Init /\ [][NextMatch]_vars


(***************************************************************************)
(* Properties of the pattern matcher (checked under SpecMatch).  The       *)
(* helpers below restate the tests from the specification's wording, on    *)
(* the recorded inputs of the call.                                        *)
(***************************************************************************)
HasEnabledTest(sp) ==
    sp.match.stageActive \/ sp.match.stageInactive \/ sp.match.codeHash
    \/ sp.match.codeSizeLessThan

HashDiffers(sp, sk) ==
    (sp.codeHash.lower # sk.codeHash.lower) \/ (sp.codeHash.upper # sk.codeHash.upper)

NonHashTestFails(sp, sk) ==
    \/ sp.match.stageActive /\ sk.codeSize = 0
    \/ sp.match.stageInactive /\ sk.codeSize # 0
    \/ sp.match.codeSizeLessThan /\ sp.codeSizeLessThanValue >= sk.codeSize

NonSizeTestFails(sp, sk) ==
    \/ sp.match.stageActive /\ sk.codeSize = 0
    \/ sp.match.stageInactive /\ sk.codeSize # 0
    \/ sp.match.codeHash /\ HashDiffers(sp, sk)

McPattern(s) == matchCall.pattern.shaders[s]
McKey(s) == matchCall.pipelineKey.shaders[s]

\* C1: a pattern with "always" set matches every pipeline key, whatever per-stage
\* tests, hashes and thresholds it carries.
C1_AlwaysMatches ==
    (matchCall.done /\ matchCall.pattern.match.always) => (matchCall.result = TRUE)

\* C1 witness: an "always" pattern whose per-stage tests would reject the key matched.
C1_Witness ==
    /\ matchCall.done
    /\ matchCall.pattern.match.always
    /\ \E s \in Stages :
          /\ McPattern(s).match.codeHash /\ HashDiffers(McPattern(s), McKey(s))
          /\ McPattern(s).match.stageActive /\ McKey(s).codeSize = 0
    /\ matchCall.result = TRUE

\* C2: with "always" unset and no test enabled on any of the six stages the pattern
\* matches every key, also the key whose stages are all absent.
C2_EmptyPatternMatches ==
    (/\ matchCall.done
     /\ ~matchCall.pattern.match.always
     /\ \A s \in Stages : ~HasEnabledTest(McPattern(s)))
    => (matchCall.result = TRUE)

\* C2 witness: an empty pattern (operands set, no test enabled) matched the key with
\* every stage absent.
C2_Witness ==
    /\ matchCall.done
    /\ ~matchCall.pattern.match.always
    /\ \A s \in Stages : ~HasEnabledTest(McPattern(s))
    /\ \E s \in Stages : McPattern(s).codeHash # EmptyHash
                         /\ McPattern(s).codeSizeLessThanValue > 0
    /\ \A s \in Stages : McKey(s).codeSize = 0
    /\ matchCall.result = TRUE

\* C3: with "always" unset, a stage whose hash test is enabled and whose key hash
\* differs in the lower or the upper half makes the result false; when both halves
\* agree on every hash-tested stage the result is true provided no other enabled
\* test fails.
C3_HashEquality ==
    (matchCall.done /\ ~matchCall.pattern.match.always) =>
        /\ (\E s \in Stages : McPattern(s).match.codeHash
                              /\ HashDiffers(McPattern(s), McKey(s)))
           => (matchCall.result = FALSE)
        /\ ((\A s \in Stages : McPattern(s).match.codeHash
                               => ~HashDiffers(McPattern(s), McKey(s)))
            /\ (\A s \in Stages : ~NonHashTestFails(McPattern(s), McKey(s))))
           => (matchCall.result = TRUE)

\* C3 witness: a hash-tested stage whose key agrees in the lower half and differs in
\* the upper half only, with no other test enabled, was rejected.
C3_Witness ==
    /\ matchCall.done
    /\ ~matchCall.pattern.match.always
    /\ \E s \in Stages :
          /\ McPattern(s).match = [ZeroShaderMatch EXCEPT !.codeHash = TRUE]
          /\ McPattern(s).codeHash.lower = McKey(s).codeHash.lower
          /\ McPattern(s).codeHash.upper # McKey(s).codeHash.upper
          /\ \A t \in Stages \ {s} : ~HasEnabledTest(McPattern(t))
    /\ matchCall.result = FALSE

\* C4: for a stage with the size-less-than test enabled, threshold T and key size S,
\* the test fails exactly when T >= S and passes exactly when T < S: the pattern is
\* rejected whenever T >= S (so at T = S, and for every T when S = 0), and it matches
\* when T < S on every size-tested stage and no other enabled test fails.
C4_SizeLessThan ==
    (matchCall.done /\ ~matchCall.pattern.match.always) =>
        /\ (\E s \in Stages : McPattern(s).match.codeSizeLessThan
                              /\ McPattern(s).codeSizeLessThanValue >= McKey(s).codeSize)
           => (matchCall.result = FALSE)
        /\ ((\A s \in Stages : McPattern(s).match.codeSizeLessThan
                               => McPattern(s).codeSizeLessThanValue < McKey(s).codeSize)
            /\ (\A s \in Stages : ~NonSizeTestFails(McPattern(s), McKey(s))))
           => (matchCall.result = TRUE)

\* C4 witness: the boundary T = S > 0 with only the size test enabled was rejected.
C4_Witness ==
    /\ matchCall.done
    /\ ~matchCall.pattern.match.always
    /\ \E s \in Stages :
          /\ McPattern(s).match = [ZeroShaderMatch EXCEPT !.codeSizeLessThan = TRUE]
          /\ McPattern(s).codeSizeLessThanValue = McKey(s).codeSize
          /\ McKey(s).codeSize > 0
          /\ \A t \in Stages \ {s} : ~HasEnabledTest(McPattern(t))
    /\ matchCall.result = FALSE

\* Every enabled test of one stage passes, in the specification's wording: the
\* stage-active test fails iff the key's size is 0, the stage-inactive test fails iff
\* it is non-zero, the hash test fails iff a half differs, the size test fails iff the
\* threshold is not below the key's size.
EnabledTestsPass(sp, sk) ==
    /\ sp.match.stageActive => (sk.codeSize # 0)
    /\ sp.match.stageInactive => (sk.codeSize = 0)
    /\ sp.match.codeHash => ~HashDiffers(sp, sk)
    /\ sp.match.codeSizeLessThan => (sp.codeSizeLessThanValue < sk.codeSize)

\* C12: with "always" unset the result is the conjunction, over the stages that have
\* at least one enabled test, of all the enabled tests of the stage (stage-active
\* fails iff the key's size is 0, stage-inactive iff it is non-zero); a stage with both
\* stage-active and stage-inactive enabled never matches, and stages without an
\* enabled test have no influence.
C12_ConjunctionOfTests ==
    (matchCall.done /\ ~matchCall.pattern.match.always) =>
        /\ matchCall.result =
               (\A s \in {t \in Stages : HasEnabledTest(McPattern(t))} :
                    EnabledTestsPass(McPattern(s), McKey(s)))
        /\ (\E s \in Stages : McPattern(s).match.stageActive
                              /\ McPattern(s).match.stageInactive)
           => (matchCall.result = FALSE)

\* C12 witness: one stage passes its hash test, while another has only stage-active and
\* stage-inactive enabled on a present shader; the pattern was rejected.
C12_Witness ==
    /\ matchCall.done
    /\ ~matchCall.pattern.match.always
    /\ \E s, t \in Stages :
          /\ s # t
          /\ McPattern(s).match = [ZeroShaderMatch EXCEPT !.stageActive = TRUE,
                                                          !.stageInactive = TRUE]
          /\ McKey(s).codeSize # 0
          /\ McPattern(t).match.codeHash
          /\ EnabledTestsPass(McPattern(t), McKey(t))
    /\ matchCall.result = FALSE


(***************************************************************************)
(* Specification SpecApply: ApplyProfileToShaderCreateInfo called once on  *)
(* a profile, a key, a stage and a target drawn from bounded sets.  Each   *)
(* profile exercises one tunable (its apply bit and its value payload, in  *)
(* every combination), or all of them at once.                             *)
(***************************************************************************)
ValueFields ==
    {"vgprLimit", "sgprLimit", "maxThreadGroupsPerComputeUnit", "fp32DenormalMode",
     "waveSize", "waveBreakSize"}

FlagBits ==
    {"debugMode", "trapPresent", "allowReZ", "disableLoopUnrolls", "wgpMode",
     "nggDisable", "nggFasterLaunchRate", "nggVertexReuse", "nggEnableFrustumCulling",
     "nggEnableBoxFilterCulling", "nggEnableSphereCulling", "nggEnableBackfaceCulling",
     "nggEnableSmallPrimFilter"}

BoolPayloadFields ==
    {"useSiScheduler", "reconfigWorkgroupLayout", "enableLoadScalarizer", "disableLicm"}

NumPayloadFields == {"forceLoopUnrollCount", "unrollThreshold"}

\* Apply bits BuildTuningProfile sets and ApplyProfileToShaderCreateInfo never reads.
UnreadValueBits == {"ldsSpillLimitDwords", "userDataSpillThreshold"}
UnreadFlagBits == {"enableSelectiveInline", "enableSubvector"}

\* <<apply bit, value payload>> exercised by a profile ("none": not exercised).
Probes ==
    {<<f, f>> : f \in ValueFields \cup UnreadValueBits}
    \cup {<<b, "none">> : b \in FlagBits \cup UnreadFlagBits}
    \cup {<<"none", f>> : f \in BoolPayloadFields \cup NumPayloadFields}

PayloadValues(field) ==
    IF field = "none" THEN {0}
    ELSE IF field \in BoolPayloadFields THEN BOOLEAN
    ELSE 0..MaxValue

ProbeShaderCreate(probe, gate, payload) ==
    [apply |-> IF probe[1] = "none" THEN ZeroShaderCreateApply
               ELSE [ZeroShaderCreateApply EXCEPT ![probe[1]] = gate],
     tuningOptions |-> IF probe[2] = "none" THEN ZeroShaderTuningOptions
                       ELSE [ZeroShaderTuningOptions EXCEPT ![probe[2]] = payload]]

\* Every apply bit set and every payload non-zero.
FullShaderCreate(v) ==
    [apply |-> [b \in DOMAIN ZeroShaderCreateApply |-> TRUE],
     tuningOptions |-> [f \in DOMAIN ZeroShaderTuningOptions |->
                           IF f \in BoolPayloadFields THEN TRUE ELSE v]]

PatAlways == [ZeroPattern EXCEPT !.match.always = TRUE]

PatHashA ==
    [ZeroPattern EXCEPT !.shaders[ShaderStageFragment] =
        [match |-> [ZeroShaderMatch EXCEPT !.codeHash = TRUE], codeHash |-> HashA,
         codeSizeLessThanValue |-> 0]]

MakeEntry(pattern, stage, shaderCreate) ==
    [pattern |-> pattern,
     action |-> [ZeroAction EXCEPT !.shaders[stage].shaderCreate = shaderCreate]]

\* An unset apply bit is paired with the extreme payloads, a set one with every payload.
ProbeEntries(probe) ==
    {MakeEntry(pat, ShaderStageFragment, ProbeShaderCreate(probe, gate, payload)) :
        pat \in {PatAlways, PatHashA},
        gate \in (IF probe[1] = "none" THEN {FALSE} ELSE BOOLEAN),
        payload \in PayloadValues(probe[2])}
    \ {MakeEntry(pat, ShaderStageFragment, ProbeShaderCreate(probe, FALSE, payload)) :
        pat \in {PatAlways, PatHashA},
        payload \in (IF probe[1] = "none" THEN {} ELSE 1..(MaxValue - 1))}

FullEntries ==
    {MakeEntry(pat, ShaderStageFragment, FullShaderCreate(v)) :
        pat \in {PatAlways, PatHashA}, v \in 1..MaxValue}

EntryLists(entries) == UNION {[1..n -> entries] : n \in 0..MaxEntries}

ProfileOf(entryList) ==
    [allocated |-> TRUE, entryCount |-> Len(entryList),
     entryCapacity |-> InitialPipelineProfileEntries, pEntries |-> entryList]

\* The key whose Fragment stage carries HashA, and one differing in the upper half.
KeyA == [ZeroKey EXCEPT !.shaders[ShaderStageFragment] = [codeHash |-> HashA, codeSize |-> 1]]
KeyB == [ZeroKey EXCEPT !.shaders[ShaderStageFragment] =
            [codeHash |-> [lower |-> HashA.lower, upper |-> Zero64], codeSize |-> 1]]

NumericOptionFields ==
    {"vgprLimit", "sgprLimit", "maxThreadGroupsPerComputeUnit", "forceLoopUnrollCount",
     "unrollThreshold", "fp32DenormalMode", "waveSize", "waveBreakSize",
     "ldsSpillLimitDwords", "userDataSpillThreshold"}

\* A target the caller has filled in: every number above the payload range.
CallerOptions ==
    [f \in DOMAIN ZeroOptions |->
        IF f = "isNull" THEN FALSE
        ELSE IF f = "enableNgg" THEN FALSE
        ELSE IF f \in NumericOptionFields THEN MaxValue + 1
        ELSE TRUE]

NullOptions == [ZeroOptions EXCEPT !.isNull = TRUE]

\* <<key, stage, target, preV45>> of the calls made.
ApplyCalls ==
    {<<KeyA, ShaderStageFragment, ZeroOptions, TRUE>>,
     <<KeyA, ShaderStageFragment, ZeroOptions, FALSE>>,
     <<KeyA, ShaderStageFragment, CallerOptions, TRUE>>,
     <<KeyA, ShaderStageFragment, CallerOptions, FALSE>>,
     <<KeyA, ShaderStageFragment, NullOptions, TRUE>>,
     <<KeyB, ShaderStageFragment, ZeroOptions, TRUE>>,
     <<KeyB, ShaderStageFragment, CallerOptions, TRUE>>,
     <<KeyA, ShaderStageCompute, CallerOptions, TRUE>>}

CallApply ==
    /\ pc = "ready"
    /\ ~applyCall.done
    /\ \E entries \in {ProbeEntries(p) : p \in Probes} \cup {FullEntries} :
       \E entryList \in EntryLists(entries), c \in ApplyCalls :
          applyCall' =
              [done |-> TRUE, profile |-> ProfileOf(entryList), pipelineKey |-> c[1],
               shaderStage |-> c[2], preV45 |-> c[4], optionsIn |-> c[3],
               optionsOut |-> ApplyProfileToShaderCreateInfo(
                                  ProfileOf(entryList), c[1], c[2], c[3], c[4])]
    /\ UNCHANGED <<matchCall, pc, m_settings, env, m_appProfile, m_tuningProfile,
                   m_runtimeProfile, parseErrors, overrideCall>>
    /\ UNCHANGED pipelineVars

NextApply ==
    \/ CallInitDefault
    \/ CallApply

SpecApply == Init /\ [][NextApply]_vars


(***************************************************************************)
(* Vocabulary of the applicator properties: for each field of the target,  *)
(* the apply bit that stands for it, and what an entry's action does to it *)
(* according to the specification's reading of the action.                 *)
(***************************************************************************)
TargetFields == DOMAIN ZeroOptions \ {"isNull"}

\* Target fields set to a constant by an apply bit, and that bit.
FlagBitOf ==
    [debugMode |-> "debugMode", trapPresent |-> "trapPresent", allowReZ |-> "allowReZ",
     disableLoopUnroll |-> "disableLoopUnrolls", wgpMode |-> "wgpMode",
     enableNgg |-> "nggDisable", enableFastLaunch |-> "nggFasterLaunchRate",
     enableVertexReuse |-> "nggVertexReuse",
     enableFrustumCulling |-> "nggEnableFrustumCulling",
     enableBoxFilterCulling |-> "nggEnableBoxFilterCulling",
     enableSphereCulling |-> "nggEnableSphereCulling",
     enableBackfaceCulling |-> "nggEnableBackfaceCulling",
     enableSmallPrimFilter |-> "nggEnableSmallPrimFilter"]

FlagTargets == DOMAIN FlagBitOf

PayloadGatedFields == BoolPayloadFields \cup NumPayloadFields

\* The apply bit of a target field; the six payload-gated fields have none that the
\* builders set or the applicator reads, so theirs is always unset.
ApplyBitOf(f) ==
    IF f \in FlagTargets THEN FlagBitOf[f]
    ELSE IF f \in PayloadGatedFields THEN "none"
    ELSE f

ApplyBitSet(shaderCreate, f) ==
    (ApplyBitOf(f) # "none") /\ shaderCreate.apply[ApplyBitOf(f)]

\* The value an action carries for a field: its tuning value, or the constant the
\* flag stands for.
ActionValue(shaderCreate, f) ==
    IF f = "enableNgg" THEN FALSE
    ELSE IF f \in FlagTargets \cup UnreadFlagBits \cup BoolPayloadFields THEN TRUE
    ELSE shaderCreate.tuningOptions[f]

PayloadSet(shaderCreate, f) ==
    IF f \in BoolPayloadFields THEN shaderCreate.tuningOptions[f]
    ELSE shaderCreate.tuningOptions[f] # 0

\* Whether an action writes a field: by its apply bit, or by its payload for the six
\* payload-gated fields; the fast-launch branch exists before interface version 45.
ActionWrites(shaderCreate, f, preV45) ==
    IF f \in PayloadGatedFields THEN PayloadSet(shaderCreate, f)
    ELSE IF f \in UnreadValueBits \cup UnreadFlagBits THEN FALSE
    ELSE ApplyBitSet(shaderCreate, f) /\ ((f = "enableFastLaunch") => preV45)

\* Indices (1-based) of the entries of a profile whose pattern matches the key.
MatchingEntries(profile, pipelineKey) ==
    {i \in 1..profile.entryCount :
        ProfilePatternMatchesPipeline(profile.pEntries[i].pattern, pipelineKey)}

Max(S) == CHOOSE x \in S : \A y \in S : y <= x

AcShaderCreate(i) ==
    applyCall.profile.pEntries[i].action.shaders[applyCall.shaderStage].shaderCreate

AcMatching == MatchingEntries(applyCall.profile, applyCall.pipelineKey)

\* C6 as claimed: a field whose apply bit is unset in every matching rule is never
\* changed on the target, whatever the payload, for every tunable field.
C6_Original ==
    applyCall.done =>
        \A f \in TargetFields :
            (\A i \in AcMatching : ~ApplyBitSet(AcShaderCreate(i), f))
            => (applyCall.optionsOut[f] = applyCall.optionsIn[f])

\* C6 amended: a field gated by an apply bit is never changed when that bit is unset
\* in every matching rule, whatever the payload; the six payload-gated fields
\* (useSiScheduler, reconfigWorkgroupLayout, enableLoadScalarizer,
\* forceLoopUnrollCount, disableLicm, unrollThreshold) are unchanged when every
\* matching rule's payload is false/zero and are written (true, or the payload of
\* the last such rule) when a matching rule's payload is true/non-zero.
C6_Amended ==
    applyCall.done =>
        \A f \in TargetFields :
            IF f \in PayloadGatedFields
            THEN LET set == {i \in AcMatching : PayloadSet(AcShaderCreate(i), f)}
                 IN  applyCall.optionsOut[f] =
                        IF set = {} \/ applyCall.optionsIn.isNull
                        THEN applyCall.optionsIn[f]
                        ELSE ActionValue(AcShaderCreate(Max(set)), f)
            ELSE (\A i \in AcMatching : ~ApplyBitSet(AcShaderCreate(i), f))
                 => (applyCall.optionsOut[f] = applyCall.optionsIn[f])

\* C6 witness: a matching rule with the vgprLimit apply bit unset and a non-zero
\* vgprLimit payload left the caller's vgprLimit in place.
C6_Witness ==
    /\ applyCall.done
    /\ ~applyCall.optionsIn.isNull
    /\ AcMatching # {}
    /\ \A i \in AcMatching :
          /\ ~AcShaderCreate(i).apply.vgprLimit
          /\ AcShaderCreate(i).tuningOptions.vgprLimit # 0
    /\ applyCall.optionsIn.vgprLimit = MaxValue + 1
    /\ applyCall.optionsOut.vgprLimit = MaxValue + 1

\* C8: applying one rule set equals folding, in array order, the actions of exactly
\* the rules whose pattern matches the key: each target field ends with the value of
\* the last matching rule that writes it, or unchanged when no matching rule writes
\* it (so in particular for a rule set with zero entries).
C8_FoldInOrder ==
    applyCall.done =>
        \A f \in TargetFields :
            LET writers == {i \in AcMatching :
                               ActionWrites(AcShaderCreate(i), f, applyCall.preV45)}
            IN  applyCall.optionsOut[f] =
                   IF writers = {} \/ applyCall.optionsIn.isNull
                   THEN applyCall.optionsIn[f]
                   ELSE ActionValue(AcShaderCreate(Max(writers)), f)

\* C8 witness: two matching rules wrote different vgprLimit values and the second
\* one's value is on the target.
C8_Witness ==
    /\ applyCall.done
    /\ ~applyCall.optionsIn.isNull
    /\ applyCall.profile.entryCount = 2
    /\ AcMatching = {1, 2}
    /\ AcShaderCreate(1).apply.vgprLimit /\ AcShaderCreate(2).apply.vgprLimit
    /\ AcShaderCreate(1).tuningOptions.vgprLimit # AcShaderCreate(2).tuningOptions.vgprLimit
    /\ applyCall.optionsOut.vgprLimit = AcShaderCreate(2).tuningOptions.vgprLimit


(***************************************************************************)
(* Specification SpecGraphics: ApplyProfileToGraphicsPipelineCreateInfo    *)
(* called once on a profile, a key, a stage mask and a target drawn from   *)
(* bounded sets.  Each profile exercises one override: the cuEnableMask of *)
(* one stage, the late-alloc VS limit or the binning override.             *)
(***************************************************************************)
GraphicsProbes ==
    {<<"cuEnableMask", st>> : st \in Stages}
    \cup {<<"lateAllocVsLimit", 0>>, <<"binningOverride", 0>>}

GraphicsProbeAction(probe, gate, v) ==
    CASE probe[1] = "cuEnableMask" ->
            [ZeroAction EXCEPT
                !.shaders[probe[2]].dynamicShaderInfo.apply.cuEnableMask = gate,
                !.shaders[probe[2]].dynamicShaderInfo.cuEnableMask = v]
      [] probe[1] = "lateAllocVsLimit" ->
            [ZeroAction EXCEPT !.createInfo.apply.lateAllocVsLimit = gate,
                               !.createInfo.lateAllocVsLimit = v]
      [] probe[1] = "binningOverride" ->
            [ZeroAction EXCEPT !.createInfo.apply.binningOverride = gate,
                               !.createInfo.binningOverride =
                                   IF v % 2 = 0 THEN "Enable" ELSE "Disable"]

\* An unset apply bit is paired with the extreme values, a set one with every value.
GraphicsProbeEntries(probe) ==
    {[pattern |-> pat, action |-> GraphicsProbeAction(probe, gate, v)] :
        pat \in {PatAlways, PatHashA}, gate \in BOOLEAN, v \in 0..MaxValue}
    \ {[pattern |-> pat, action |-> GraphicsProbeAction(probe, FALSE, v)] :
        pat \in {PatAlways, PatHashA}, v \in 1..(MaxValue - 1)}

\* Every graphics override of every stage set at once.
FullGraphicsAction(v) ==
    [shaders |-> [st \in Stages |->
                    [ZeroShaderAction EXCEPT !.dynamicShaderInfo.apply.cuEnableMask = TRUE,
                                             !.dynamicShaderInfo.cuEnableMask = v]],
     createInfo |-> [apply |-> [lateAllocVsLimit |-> TRUE, binningOverride |-> TRUE],
                     lateAllocVsLimit |-> v,
                     binningOverride |-> IF v % 2 = 0 THEN "Enable" ELSE "Disable"]]

FullGraphicsEntries ==
    {[pattern |-> pat, action |-> FullGraphicsAction(v)] :
        pat \in {PatAlways, PatHashA}, v \in 1..MaxValue}

\* A target the caller has filled in: every number above the value range.
CallerGraphicsTarget ==
    [pPalCreateInfo |-> [useLateAllocVsLimit |-> FALSE, lateAllocVsLimit |-> MaxValue + 1,
                         binningOverride |-> "Default"],
     pGraphicsShaderInfos |-> [n \in DOMAIN ZeroDynamicGraphicsShaderInfos |->
                                 [cuEnableMask |-> MaxValue + 1]]]

AllGraphicsStages ==
    VK_SHADER_STAGE_VERTEX_BIT + VK_SHADER_STAGE_TESSELLATION_CONTROL_BIT
    + VK_SHADER_STAGE_TESSELLATION_EVALUATION_BIT + VK_SHADER_STAGE_GEOMETRY_BIT
    + VK_SHADER_STAGE_FRAGMENT_BIT

\* The stage masks of the calls: none, vertex and fragment, every graphics stage,
\* every graphics stage but the fragment one, and fragment with the compute bit (32).
StageMasks ==
    {0, VK_SHADER_STAGE_VERTEX_BIT + VK_SHADER_STAGE_FRAGMENT_BIT, AllGraphicsStages,
     AllGraphicsStages - VK_SHADER_STAGE_FRAGMENT_BIT, VK_SHADER_STAGE_FRAGMENT_BIT + 32}

\* <<key, stage mask, target>> of the calls made.
GraphicsCalls ==
    {<<KeyA, mask, CallerGraphicsTarget>> : mask \in StageMasks}
    \cup {<<KeyA, AllGraphicsStages, ZeroGraphicsTarget>>,
          <<KeyB, AllGraphicsStages, CallerGraphicsTarget>>}

\* One call of ApplyProfileToGraphicsPipelineCreateInfo with
\* m_settings.pipelineProfileDbgPrintProfileMatch off (as DefaultSettings has it):
\* the call prints nothing and never touches m_printMutex.
CallApplyGraphics ==
    /\ pc = "ready"
    /\ ~graphicsCall.done
    /\ ~m_settings.pipelineProfileDbgPrintProfileMatch
    /\ \E entries \in {GraphicsProbeEntries(p) : p \in GraphicsProbes}
                       \cup {FullGraphicsEntries} :
       \E entryList \in EntryLists(entries), c \in GraphicsCalls :
          graphicsCall' =
              [done |-> TRUE, profile |-> ProfileOf(entryList), pipelineKey |-> c[1],
               shaderStages |-> c[2], targetIn |-> c[3],
               targetOut |-> ApplyProfileToGraphicsPipelineCreateInfo(
                                 ProfileOf(entryList), c[1], c[2], c[3])]
    /\ UNCHANGED <<matchCall, applyCall, pc, m_settings, env, m_appProfile,
                   m_tuningProfile, m_runtimeProfile, parseErrors, overrideCall>>
    /\ UNCHANGED <<lifeVars, threadVars>>

NextGraphics ==
    \/ CallInitDefault
    \/ CallApplyGraphics

SpecGraphics == Init /\ [][NextGraphics]_vars

(***************************************************************************)
(* Properties of the graphics applicator (checked under SpecGraphics), on  *)
(* the recorded inputs and result of the call.                             *)
(***************************************************************************)
\* The per-stage dynamic infos of the target, the stage each belongs to and the bit
\* that marks the stage active in the mask.
DynamicInfoStage ==
    [vs |-> ShaderStageVertex, hs |-> ShaderStageTessControl,
     ds |-> ShaderStageTessEvaluation, gs |-> ShaderStageGeometry,
     ps |-> ShaderStageFragment]

RECURSIVE TwoToThe(_)
TwoToThe(n) == IF n = 0 THEN 1 ELSE 2 * TwoToThe(n - 1)

StageInMask(mask, stage) == (mask % TwoToThe(stage + 1)) >= TwoToThe(stage)

GcMatching == MatchingEntries(graphicsCall.profile, graphicsCall.pipelineKey)
GcAction(i) == graphicsCall.profile.pEntries[i].action

\* The matching rules that write the dynamic info n, the late-alloc limit, the binning.
GcInfoWriters(n) ==
    {i \in GcMatching :
        /\ StageInMask(graphicsCall.shaderStages, DynamicInfoStage[n])
        /\ GcAction(i).shaders[DynamicInfoStage[n]].dynamicShaderInfo.apply.cuEnableMask}

GcLateAllocWriters == {i \in GcMatching : GcAction(i).createInfo.apply.lateAllocVsLimit}
GcBinningWriters == {i \in GcMatching : GcAction(i).createInfo.apply.binningOverride}

\* C15: for every matching rule, a graphics stage's dynamic shader info (cuEnableMask)
\* is written iff the stage's bit is set in the active-stage mask and the rule's
\* cuEnableMask apply bit for the stage is set; stages absent from the mask keep their
\* dynamic info; the late-alloc VS limit (with its use flag) and the binning override
\* are written iff their own apply bits are set, whatever the stage mask.  The target
\* therefore ends with the value of the last matching rule that writes a field, and
\* with its old value when none does.
C15_GraphicsOverrides ==
    graphicsCall.done =>
        LET in == graphicsCall.targetIn
            out == graphicsCall.targetOut
        IN  /\ \A n \in DOMAIN DynamicInfoStage :
                  out.pGraphicsShaderInfos[n].cuEnableMask =
                      IF GcInfoWriters(n) = {}
                      THEN in.pGraphicsShaderInfos[n].cuEnableMask
                      ELSE GcAction(Max(GcInfoWriters(n)))
                               .shaders[DynamicInfoStage[n]].dynamicShaderInfo.cuEnableMask
            /\ out.pPalCreateInfo.useLateAllocVsLimit =
                  IF GcLateAllocWriters = {} THEN in.pPalCreateInfo.useLateAllocVsLimit
                  ELSE TRUE
            /\ out.pPalCreateInfo.lateAllocVsLimit =
                  IF GcLateAllocWriters = {} THEN in.pPalCreateInfo.lateAllocVsLimit
                  ELSE GcAction(Max(GcLateAllocWriters)).createInfo.lateAllocVsLimit
            /\ out.pPalCreateInfo.binningOverride =
                  IF GcBinningWriters = {} THEN in.pPalCreateInfo.binningOverride
                  ELSE GcAction(Max(GcBinningWriters)).createInfo.binningOverride

\* C15 witness: a matching rule with every override set was applied under a mask
\* without the fragment bit: the vertex info and the create-info were written, the
\* fragment info kept the caller's value.
C15_Witness ==
    /\ graphicsCall.done
    /\ ~StageInMask(graphicsCall.shaderStages, ShaderStageFragment)
    /\ StageInMask(graphicsCall.shaderStages, ShaderStageVertex)
    /\ \E i \in GcMatching :
          /\ GcAction(i).shaders[ShaderStageFragment].dynamicShaderInfo.apply.cuEnableMask
          /\ GcAction(i).shaders[ShaderStageVertex].dynamicShaderInfo.apply.cuEnableMask
          /\ GcAction(i).createInfo.apply.lateAllocVsLimit
    /\ graphicsCall.targetOut.pGraphicsShaderInfos.ps.cuEnableMask = MaxValue + 1
    /\ graphicsCall.targetOut.pGraphicsShaderInfos.vs.cuEnableMask <= MaxValue
    /\ graphicsCall.targetOut.pPalCreateInfo.useLateAllocVsLimit


(***************************************************************************)
(* ShaderOptimizer::OverrideShaderCreateInfo: the three profiles in turn.  *)
(* The result records the target after each of the three calls.            *)
(***************************************************************************)
OverrideShaderCreateInfo_TuningLast(app, tuning, runtime, pipelineKey, shaderStage, options, preV45) ==
    LET a == ApplyProfileToShaderCreateInfo(app, pipelineKey, shaderStage, options, preV45)
        r == ApplyProfileToShaderCreateInfo(runtime, pipelineKey, shaderStage, a, preV45)
        t == ApplyProfileToShaderCreateInfo(tuning, pipelineKey, shaderStage, r, preV45)
    IN  [afterApp |-> a, afterTuning |-> r, optionsOut |-> t]

OverrideShaderCreateInfo(app, tuning, runtime, pipelineKey, shaderStage, options, preV45) ==
    LET a == ApplyProfileToShaderCreateInfo(app, pipelineKey, shaderStage, options, preV45)
        t == ApplyProfileToShaderCreateInfo(tuning, pipelineKey, shaderStage, a, preV45)
        r == ApplyProfileToShaderCreateInfo(runtime, pipelineKey, shaderStage, t, preV45)
    IN  [afterApp |-> a, afterTuning |-> t, optionsOut |-> r]

(***************************************************************************)
(* Inputs of Init: the settings and what the collaborators return.         *)
(***************************************************************************)
BoolTuningSettings ==
    {"overrideUserDataSpillThreshold", "overrideAllowReZ", "overrideEnableSelectiveInline",
     "overrideDisableLoopUnrolls", "overrideUseSiScheduler",
     "overrideReconfigWorkgroupLayout", "overrideDisableLicm",
     "overrideEnableLoadScalarizer", "overrideUseNgg", "overrideEnableSubvector"}

NumTuningSettings ==
    {"overrideNumVGPRsAvailable", "overrideMaxLdsSpillDwords", "overrideWavesPerCu",
     "overrideCsTgPerCu"}

\* The settings with every tuning scalar set to a non-default value.
FullTuning(base) ==
    [f \in DOMAIN base |->
        IF f \in BoolTuningSettings THEN TRUE
        ELSE IF f \in NumTuningSettings THEN MaxValue
        ELSE IF f = "overrideWaveSize" THEN "WaveSize32"
        ELSE IF f = "overrideWgpMode" THEN "WgpModeWgp"
        ELSE IF f = "overrideUsePbbPerCrc" THEN "PipelineBinningModeEnable"
        ELSE base[f]]

\* `base` with no, one, or every tuning scalar set to a non-default value.
TunedSettings(base) ==
    {base, FullTuning(base)}
    \cup {[base EXCEPT ![f] = TRUE] : f \in BoolTuningSettings}
    \cup {[base EXCEPT ![f] = v] : f \in NumTuningSettings, v \in 1..MaxValue}
    \cup {[base EXCEPT !.overrideWaveSize = w] : w \in {"WaveSize64", "WaveSize32"}}
    \cup {[base EXCEPT !.overrideWgpMode = w] : w \in {"WgpModeCu", "WgpModeWgp"}}
    \cup {[base EXCEPT !.overrideUsePbbPerCrc = b] :
             b \in {"PipelineBinningModeEnable", "PipelineBinningModeDisable"}}

\* The switch, the hash pair (none, one half only, both halves) and the stage.
TuningBases ==
    {[DefaultSettings EXCEPT !.overrideShaderParams = on,
                             !.overrideShaderHashLower = h[1],
                             !.overrideShaderHashUpper = h[2],
                             !.overrideShaderStage = st,
                             !.pipelineProfileRuntimeFile = "profile.json"] :
        on \in BOOLEAN,
        h \in {<<Zero64, Zero64>>, <<HashA.lower, Zero64>>, <<Zero64, HashA.upper>>,
               <<HashA.lower, HashA.upper>>},
        st \in {ShaderStageFragment, ShaderStageCompute}}

\* An entry writing vgprLimit, waveSize and allowReZ for the Fragment stage.
LimitEntry(pattern, v) ==
    MakeEntry(pattern, ShaderStageFragment,
        [apply |-> [ZeroShaderCreateApply EXCEPT !.vgprLimit = TRUE, !.waveSize = TRUE,
                                                 !.allowReZ = TRUE],
         tuningOptions |-> [ZeroShaderTuningOptions EXCEPT !.vgprLimit = v,
                                                           !.waveSize = v]])

\* What the built-in table holds for the application, and what the runtime file holds.
AppTable == <<LimitEntry(PatAlways, MaxValue)>>
RuntimeDoc == <<LimitEntry(PatAlways, 1), LimitEntry(PatHashA, MaxValue)>>
AppTables == {<< >>, AppTable}
RuntimeDocs == {<< >>, RuntimeDoc}

GoodFileEnv(table, doc) ==
    [DefaultEnv EXCEPT !.tableEntries = table, !.fileOpens = TRUE,
                       !.jsonBufferAlloc = TRUE, !.bytesRead = 1, !.jsonParses = TRUE,
                       !.deserializes = TRUE, !.docEntries = doc]

\* With the tuning switch on: every tuning configuration, with the application table
\* and the runtime file both empty or both holding conflicting entries.  With the
\* switch on or off: no or every scalar set, with each of the two empty or not.
TuningScenarios ==
    {<<st, GoodFileEnv(files[1], files[2])>> :
        st \in UNION {TunedSettings(b) : b \in {x \in TuningBases : x.overrideShaderParams}},
        files \in {<<(<< >>), (<< >>)>>, <<AppTable, RuntimeDoc>>}}
    \cup {<<st, GoodFileEnv(table, doc)>> :
             st \in UNION {{b, FullTuning(b)} : b \in TuningBases},
             table \in AppTables, doc \in RuntimeDocs}

\* The tuning switch off and on, with one scalar set.
SwitchSettings ==
    {[DefaultSettings EXCEPT !.overrideShaderParams = on,
                             !.overrideShaderStage = ShaderStageFragment,
                             !.overrideNumVGPRsAvailable = MaxValue] : on \in BOOLEAN}

\* Every outcome of the runtime file read.
RuntimeScenarios ==
    {<<[st EXCEPT !.pipelineProfileRuntimeFile = path,
                  !.pipelineProfileHaltOnParseFailure = halt],
       [DefaultEnv EXCEPT !.allocRuntime = alloc, !.fileOpens = opens,
                          !.jsonBufferAlloc = buf, !.bytesRead = bytes,
                          !.jsonParses = parses, !.deserializes = des,
                          !.docEntries = <<LimitEntry(PatAlways, 1)>>]>> :
        st \in {x \in SwitchSettings : x.overrideShaderParams},
        path \in {"", "profile.json"}, halt \in BOOLEAN,
        alloc \in BOOLEAN, opens \in BOOLEAN, buf \in BOOLEAN, bytes \in {0, 1},
        parses \in BOOLEAN, des \in BOOLEAN}

\* Every outcome of the application and tuning allocations, for each application.
AllocScenarios ==
    {<<[st EXCEPT !.pipelineProfileIgnoresAppProfile = ignore,
                  !.enablePipelineProfileDumping = dump],
       [DefaultEnv EXCEPT !.allocApp = allocA, !.allocTuning = allocT,
                          !.appProfile = app[1], !.asicRevision = app[2],
                          !.tableEntries = table]>> :
        st \in SwitchSettings, ignore \in BOOLEAN, dump \in BOOLEAN,
        allocA \in BOOLEAN, allocT \in BOOLEAN,
        app \in {<<"Other", "Polaris10">>, <<"Dota2", "Fiji">>, <<"Dota2", "Polaris10">>,
                 <<"Dota2", "Polaris12">>, <<"Dota2", "Vega10">>},
        table \in AppTables}

InitScenarios == TuningScenarios \cup RuntimeScenarios \cup AllocScenarios

(***************************************************************************)
(* Specification Spec: the ShaderOptimizer object.  Init runs once, then   *)
(* OverrideShaderCreateInfo is called any number of times.                 *)
(***************************************************************************)
CallInit == InitFrom(InitScenarios)

\* RuntimeProfileParseError spinning in its while loop, in a build that keeps the
\* loop: the condition is read again and is still true, Init never returns.
SpinInParseError ==
    /\ pc = "halted"
    /\ m_settings.pipelineProfileHaltOnParseFailure
    /\ UNCHANGED vars

\* ShaderOptimizer::OverrideShaderCreateInfo
CallOverrideShaderCreateInfo ==
    /\ pc = "ready"
    /\ \E c \in ApplyCalls :
          LET r == OverrideShaderCreateInfo(m_appProfile, m_tuningProfile,
                       m_runtimeProfile, c[1], c[2], c[3], c[4])
          IN  overrideCall' =
                  [done |-> TRUE, pipelineKey |-> c[1], shaderStage |-> c[2],
                   preV45 |-> c[4], optionsIn |-> c[3], afterApp |-> r.afterApp,
                   afterTuning |-> r.afterTuning, optionsOut |-> r.optionsOut]
    /\ UNCHANGED <<m_appProfile, m_tuningProfile, m_runtimeProfile>>
    /\ UNCHANGED <<matchCall, applyCall, pc, m_settings, env, parseErrors>>
    /\ UNCHANGED pipelineVars

Next ==
    \/ CallInit
    \/ SpinInParseError
    \/ CallOverrideShaderCreateInfo

Spec == Init /\ [][Next]_vars

\* Init on every outcome of the runtime file read.
CallInitRuntime == InitFrom(RuntimeScenarios)

NextLive ==
    \/ CallInitRuntime
    \/ SpinInParseError

\* Init is called once by the owner of the object right after construction: the call
\* is not postponed forever.
SpecLive == Init /\ [][NextLive]_vars /\ WF_vars(CallInitRuntime)


(***************************************************************************)
(* Properties of the engine (checked under Spec).                          *)
(***************************************************************************)
OcShaderCreate(profile, i) ==
    profile.pEntries[i].action.shaders[overrideCall.shaderStage].shaderCreate

OcMatching(profile) == MatchingEntries(profile, overrideCall.pipelineKey)

\* Matching entries of a profile whose action has the apply bit of field f set.
OcFlagged(profile, f) ==
    {i \in OcMatching(profile) : ApplyBitSet(OcShaderCreate(profile, i), f)}

\* Matching entries of a profile whose action writes field f.
OcWriters(profile, f) ==
    {i \in OcMatching(profile) :
        ActionWrites(OcShaderCreate(profile, i), f, overrideCall.preV45)}

\* The value the last of the given entries carries for field f.
OcLastValue(profile, entries, f) == ActionValue(OcShaderCreate(profile, Max(entries)), f)

\* C5 as claimed: for each profile handed to ApplyProfileToShaderCreateInfo with a
\* non-null target, every field whose apply bit is set in a matching rule's action
\* for the stage (LDS spill limit, user-data spill threshold, selective inline and
\* subvector included) is on the target with the value of the last such rule, in a
\* build that compiles every branch of the applicator.
C5_Original ==
    (overrideCall.done /\ ~overrideCall.optionsIn.isNull /\ overrideCall.preV45) =>
        \A f \in TargetFields :
            /\ OcFlagged(m_appProfile, f) # {}
               => overrideCall.afterApp[f] =
                      OcLastValue(m_appProfile, OcFlagged(m_appProfile, f), f)
            /\ OcFlagged(m_tuningProfile, f) # {}
               => overrideCall.afterTuning[f] =
                      OcLastValue(m_tuningProfile, OcFlagged(m_tuningProfile, f), f)
            /\ OcFlagged(m_runtimeProfile, f) # {}
               => overrideCall.optionsOut[f] =
                      OcLastValue(m_runtimeProfile, OcFlagged(m_runtimeProfile, f), f)

\* C7: the rule sets are applied in the order application, tuning, runtime: a field
\* written by matching rules of two or three rule sets ends with the value of the
\* last of those rule sets.
C7_LaterRuleSetWins ==
    (overrideCall.done /\ ~overrideCall.optionsIn.isNull) =>
        \A f \in TargetFields :
            LET wApp == OcWriters(m_appProfile, f)
                wTuning == OcWriters(m_tuningProfile, f)
                wRuntime == OcWriters(m_runtimeProfile, f)
            IN  /\ (wRuntime # {} /\ (wApp # {} \/ wTuning # {}))
                   => overrideCall.optionsOut[f] = OcLastValue(m_runtimeProfile, wRuntime, f)
                /\ (wRuntime = {} /\ wTuning # {} /\ wApp # {})
                   => overrideCall.optionsOut[f] = OcLastValue(m_tuningProfile, wTuning, f)

\* C7 witness: all three rule sets wrote vgprLimit, the tuning and runtime values
\* differ, and the runtime value is on the target.
C7_Witness ==
    /\ overrideCall.done
    /\ ~overrideCall.optionsIn.isNull
    /\ OcWriters(m_appProfile, "vgprLimit") # {}
    /\ OcWriters(m_tuningProfile, "vgprLimit") # {}
    /\ OcWriters(m_runtimeProfile, "vgprLimit") # {}
    /\ overrideCall.afterApp.vgprLimit # overrideCall.afterTuning.vgprLimit
    /\ overrideCall.afterTuning.vgprLimit # overrideCall.optionsOut.vgprLimit
    /\ overrideCall.optionsOut.vgprLimit =
           OcLastValue(m_runtimeProfile, OcWriters(m_runtimeProfile, "vgprLimit"),
                       "vgprLimit")

TuningDisabled == (m_settings.overrideShaderParams = FALSE) \/ ~env.allocTuning
AppDisabled == m_settings.pipelineProfileIgnoresAppProfile \/ ~env.allocApp

\* C9: once Init has run, the tuning profile has no entry when overrideShaderParams
\* is false or its allocation failed, and the application profile has none when
\* pipelineProfileIgnoresAppProfile is set or its allocation failed; Init did not
\* crash on the missing storage, and an override applies no rule of that profile.
C9_DisabledProfileIsEmpty ==
    (pc # "constructed") =>
        /\ TuningDisabled =>
              /\ pc # "crashed"
              /\ m_tuningProfile.entryCount = 0
              /\ overrideCall.done => overrideCall.afterTuning = overrideCall.afterApp
        /\ AppDisabled =>
              /\ pc # "crashed"
              /\ m_appProfile.entryCount = 0
              /\ overrideCall.done => overrideCall.afterApp = overrideCall.optionsIn

\* C9 witness: Init returned with the tuning switch off although a tuning scalar is
\* set, the application's allocation failed for a Dota2 device in the table's range,
\* and an override ran on a target.
C9_Witness ==
    /\ pc = "ready"
    /\ m_settings.overrideShaderParams = FALSE
    /\ m_settings.overrideNumVGPRsAvailable # 0
    /\ env.allocTuning
    /\ ~env.allocApp /\ env.appProfile = "Dota2" /\ env.asicRevision = "Polaris10"
    /\ overrideCall.done /\ ~overrideCall.optionsIn.isNull
    /\ m_tuningProfile.entryCount = 0 /\ m_appProfile.entryCount = 0

RuntimeFileUnread ==
    \/ m_settings.pipelineProfileRuntimeFile = ""
    \/ ~env.fileOpens
    \/ env.bytesRead = 0

\* C10: when the runtime file path is empty, the file cannot be opened or it reads
\* zero bytes, the runtime profile has zero entries and RuntimeProfileParseError is
\* never entered.
C10_NoFileNoDiagnostic ==
    (pc # "constructed" /\ RuntimeFileUnread) =>
        /\ m_runtimeProfile.entryCount = 0
        /\ parseErrors = 0
        /\ pc # "halted"

\* C10 witness: the file opened and read zero bytes, with the halt switch on and a
\* parser that would have failed: Init returned, no entry, no diagnostic.
C10_Witness ==
    /\ pc = "ready"
    /\ m_settings.pipelineProfileRuntimeFile # ""
    /\ m_settings.pipelineProfileHaltOnParseFailure
    /\ env.allocRuntime /\ env.fileOpens /\ env.jsonBufferAlloc
    /\ env.bytesRead = 0
    /\ ~env.jsonParses
    /\ m_runtimeProfile.entryCount = 0
    /\ parseErrors = 0

ParseFailureHalts ==
    parseErrors > 0 /\ m_settings.pipelineProfileHaltOnParseFailure

\* C11 (as stated): Init eventually completes for every configuration; a runtime
\* document that fails to parse or to deserialize is recorded as a non-fatal
\* diagnostic and construction runs to completion, whatever the halt switch.
C11_Original == <>(pc = "ready")

\* C11 (amended): Init eventually completes unless the runtime document failed to
\* parse or to deserialize while the halt switch is on.  In that case, and only in
\* that case, Init may stay in the loop of RuntimeProfileParseError for ever (the
\* loop has no side effect, so a build may also drop it and let Init return with
\* the failure counted); a halted Init never resumes.  With the switch off the
\* failure is only counted and Init returns.
C11_Amended ==
    /\ <>(pc = "ready" \/ ParseFailureHalts)
    /\ [](pc = "halted" => ParseFailureHalts)
    /\ []((pc # "constructed" /\ ~ParseFailureHalts) => pc = "ready")
    /\ [][pc = "halted" => pc' = "halted"]_vars

\* C11 witness: the document failed to parse with the halt switch off; the failure
\* was counted, the runtime profile stayed empty and Init returned.
C11_Witness ==
    /\ pc = "ready"
    /\ parseErrors > 0
    /\ ~m_settings.pipelineProfileHaltOnParseFailure
    /\ m_runtimeProfile.allocated /\ m_runtimeProfile.entryCount = 0

(***************************************************************************)
(* Properties of the rule built by BuildTuningProfile (checked under Spec).*)
(* They read the configuration from m_settings and the rule from           *)
(* m_tuningProfile.                                                        *)
(***************************************************************************)
TuningRuleBuilt ==
    /\ pc = "ready"
    /\ m_settings.overrideShaderParams
    /\ m_tuningProfile.allocated

TuningRule == m_tuningProfile.pEntries[1]
TuningStageAction == TuningRule.action.shaders[m_settings.overrideShaderStage]
TuningApply == TuningStageAction.shaderCreate.apply
TuningValues == TuningStageAction.shaderCreate.tuningOptions

\* The scalars whose treatment the code and both readings of the claim agree on.
ScalarsMapped ==
    /\ TuningApply.vgprLimit = (m_settings.overrideNumVGPRsAvailable # 0)
    /\ TuningApply.vgprLimit =>
          (TuningValues.vgprLimit = m_settings.overrideNumVGPRsAvailable)
    /\ TuningApply.ldsSpillLimitDwords = (m_settings.overrideMaxLdsSpillDwords # 0)
    /\ TuningApply.ldsSpillLimitDwords =>
          (TuningValues.ldsSpillLimitDwords = m_settings.overrideMaxLdsSpillDwords)
    /\ TuningApply.waveSize = (m_settings.overrideWaveSize # "WaveSizeAuto")
    /\ (m_settings.overrideWaveSize = "WaveSize64") => (TuningValues.waveSize = 64)
    /\ (m_settings.overrideWaveSize = "WaveSize32") => (TuningValues.waveSize = 32)
    /\ TuningStageAction.dynamicShaderInfo.apply.maxThreadGroupsPerCu =
          ((m_settings.overrideCsTgPerCu # 0)
           /\ (m_settings.overrideShaderStage = ShaderStageCompute))
    /\ TuningStageAction.dynamicShaderInfo.apply.maxThreadGroupsPerCu =>
          (TuningStageAction.dynamicShaderInfo.maxThreadGroupsPerCu
               = m_settings.overrideCsTgPerCu)
    /\ TuningRule.action.createInfo.apply.binningOverride =
          (m_settings.overrideUsePbbPerCrc # "PipelineBinningModeDefault")
    /\ (m_settings.overrideUsePbbPerCrc = "PipelineBinningModeEnable") =>
          (TuningRule.action.createInfo.binningOverride = "Enable")
    /\ (m_settings.overrideUsePbbPerCrc = "PipelineBinningModeDisable") =>
          (TuningRule.action.createInfo.binningOverride = "Disable")

\* C13 (as stated): in the rule built by BuildTuningProfile every configured scalar
\* (VGPR limit, LDS spill limit, wave size, WGP mode, compute thread-group count,
\* binning mode) leaves its apply bit unset at its default value and sets the apply
\* bit with the mapped value at every non-default value, the thread-group count only
\* for the Compute stage.
C13_Original ==
    TuningRuleBuilt =>
        /\ ScalarsMapped
        /\ TuningApply.wgpMode = (m_settings.overrideWgpMode # "WgpModeAuto")

\* C13 (amended): as stated for the VGPR limit, the LDS spill limit, the wave size, the
\* thread-group count and the binning mode; the WGP-mode apply bit is set for
\* WgpModeWgp only, and WgpModeCu leaves it unset like the default WgpModeAuto.
C13_Amended ==
    TuningRuleBuilt =>
        /\ m_tuningProfile.entryCount = 1
        /\ ScalarsMapped
        /\ TuningApply.wgpMode = (m_settings.overrideWgpMode = "WgpModeWgp")

\* C13 witness: a rule built for the Compute stage with every scalar configured.
C13_Witness ==
    /\ TuningRuleBuilt
    /\ m_settings.overrideShaderStage = ShaderStageCompute
    /\ m_settings.overrideNumVGPRsAvailable # 0 /\ TuningApply.vgprLimit
    /\ m_settings.overrideWaveSize = "WaveSize32" /\ TuningValues.waveSize = 32
    /\ m_settings.overrideWgpMode = "WgpModeWgp" /\ TuningApply.wgpMode
    /\ m_settings.overrideCsTgPerCu # 0
    /\ TuningStageAction.dynamicShaderInfo.apply.maxThreadGroupsPerCu
    /\ TuningRule.action.createInfo.binningOverride = "Enable"

\* The configured hash pair, and the keys the rule's pattern is tried on: at the
\* configured stage every combination of hash halves, present or absent, next to an
\* unrelated shader on another stage.
ConfiguredHash ==
    [lower |-> m_settings.overrideShaderHashLower,
     upper |-> m_settings.overrideShaderHashUpper]

TriedKeys ==
    {[shaders |-> [ZeroKey.shaders EXCEPT
                      ![m_settings.overrideShaderStage] = [codeHash |-> h, codeSize |-> n],
                      ![ShaderStageVertex] = other]] :
        h \in KeyHashes, n \in 0..1,
        other \in {ZeroShaderKey, [codeHash |-> HashA, codeSize |-> 1]}}

\* C14: BuildTuningProfile builds at most one rule.  With a hash pair that is non-zero
\* in either half, "always" is unset and the rule matches a key iff the key's hash at
\* the configured stage equals the configured hash in both halves; with both halves
\* zero the rule has "always" set and no hash test, and matches every key.
C14_TuningRulePattern ==
    (pc = "ready") =>
        /\ m_tuningProfile.entryCount <= 1
        /\ (m_tuningProfile.entryCount = 1) =>
              IF ConfiguredHash # EmptyHash
              THEN /\ ~TuningRule.pattern.match.always
                   /\ \A key \in TriedKeys :
                         ProfilePatternMatchesPipeline(TuningRule.pattern, key)
                         <=> (key.shaders[m_settings.overrideShaderStage].codeHash
                                  = ConfiguredHash)
              ELSE /\ TuningRule.pattern.match.always
                   /\ \A s \in Stages : ~TuningRule.pattern.shaders[s].match.codeHash
                   /\ \A key \in TriedKeys :
                         ProfilePatternMatchesPipeline(TuningRule.pattern, key)

\* C14 witness: a rule configured with a hash whose lower half is zero was built, and
\* an override on a key carrying the full first table hash went through the tuning
\* profile without being changed by it, although the rule sets a VGPR limit.
C14_Witness ==
    /\ pc = "ready"
    /\ m_tuningProfile.entryCount = 1
    /\ m_settings.overrideShaderHashLower = Zero64
    /\ m_settings.overrideShaderHashUpper = HashA.upper
    /\ m_settings.overrideShaderStage = ShaderStageFragment
    /\ TuningApply.vgprLimit
    /\ overrideCall.done
    /\ overrideCall.shaderStage = ShaderStageFragment
    /\ ~overrideCall.optionsIn.isNull
    /\ overrideCall.pipelineKey.shaders[ShaderStageFragment].codeHash = HashA
    /\ overrideCall.afterTuning = overrideCall.afterApp


(***************************************************************************)
(* Specification SpecLifecycle: the life of one ShaderOptimizer.  Init     *)
(* runs once; then OverrideShaderCreateInfo,                               *)
(* OverrideGraphicsPipelineCreateInfo and                                  *)
(* OverrideComputePipelineCreateInfo are called any number of times in any *)
(* order; then the destructor runs.                                        *)
(***************************************************************************)
\* An entry with every graphics override set, and a VGPR limit for the Fragment stage.
PipelineEntry(pattern, v) ==
    [pattern |-> pattern,
     action |-> [FullGraphicsAction(v) EXCEPT
                    !.shaders[ShaderStageFragment].shaderCreate =
                        LimitEntry(pattern, v).action.shaders[ShaderStageFragment]
                                                    .shaderCreate]]

\* The print switch off; no tuning rule, one matching always, one matching the first
\* table hash; every outcome of the three allocations; a runtime file that parses or
\* not, with the halt switch off and on.
LifecycleScenarios ==
    {<<[DefaultSettings EXCEPT !.pipelineProfileHaltOnParseFailure = halt,
                               !.overrideShaderParams = tune[1],
                               !.overrideShaderHashLower = tune[2].lower,
                               !.overrideShaderHashUpper = tune[2].upper,
                               !.overrideShaderStage = ShaderStageFragment,
                               !.overrideNumVGPRsAvailable = MaxValue,
                               !.overrideUsePbbPerCrc = "PipelineBinningModeDisable",
                               !.pipelineProfileRuntimeFile = "profile.json"],
       [DefaultEnv EXCEPT !.allocApp = allocA, !.allocTuning = allocT,
                          !.allocRuntime = allocR,
                          !.tableEntries = <<PipelineEntry(PatAlways, 1)>>,
                          !.fileOpens = TRUE, !.jsonBufferAlloc = TRUE, !.bytesRead = 1,
                          !.jsonParses = parses, !.deserializes = TRUE,
                          !.docEntries = <<PipelineEntry(PatHashA, MaxValue),
                                           PipelineEntry(PatAlways, 1)>>]>> :
        halt \in BOOLEAN,
        tune \in {<<FALSE, EmptyHash>>, <<TRUE, EmptyHash>>, <<TRUE, HashA>>},
        allocA \in BOOLEAN, allocT \in BOOLEAN, allocR \in BOOLEAN,
        parses \in BOOLEAN}

\* <<key, stage mask, target>> of the graphics calls, <<key, target>> of the compute ones.
GraphicsOverrideCalls ==
    {<<KeyA, AllGraphicsStages, CallerGraphicsTarget>>,
     <<KeyB, VK_SHADER_STAGE_VERTEX_BIT + VK_SHADER_STAGE_FRAGMENT_BIT, ZeroGraphicsTarget>>,
     <<KeyA, 0, CallerGraphicsTarget>>}

KeyCompute ==
    [ZeroKey EXCEPT !.shaders[ShaderStageCompute] = [codeHash |-> HashA, codeSize |-> 1]]

ComputeOverrideCalls ==
    {<<KeyCompute, ZeroComputeTarget>>,
     <<KeyA, [ZeroComputeTarget EXCEPT
                 !.pDynamicComputeShaderInfo.maxWavesPerCu = MaxValue + 1]>>}

CallInitLifecycle == InitFrom(LifecycleScenarios)

\* ShaderOptimizer::OverrideGraphicsPipelineCreateInfo, as one step: the call as it
\* runs with m_settings.pipelineProfileDbgPrintProfileMatch off, when it prints
\* nothing and never touches m_printMutex.  (With the switch on the call is the
\* sequence of steps of SpecThreads.)
CallOverrideGraphicsPipelineCreateInfo ==
    /\ pc = "ready"
    /\ ~m_settings.pipelineProfileDbgPrintProfileMatch
    /\ \E c \in GraphicsOverrideCalls :
          graphicsOverride' =
              [done |-> TRUE, pipelineKey |-> c[1], shaderStages |-> c[2],
               targetIn |-> c[3],
               targetOut |-> OverrideGraphicsPipelineCreateInfo(
                                 m_appProfile, m_tuningProfile, m_runtimeProfile,
                                 c[1], c[2], c[3])]
    /\ UNCHANGED <<m_appProfile, m_tuningProfile, m_runtimeProfile>>
    /\ UNCHANGED <<matchCall, applyCall, pc, m_settings, env, parseErrors, overrideCall,
                   graphicsCall, computeOverride, freed, threadVars>>

\* ShaderOptimizer::OverrideComputePipelineCreateInfo, as one step: the call as it
\* runs with m_settings.pipelineProfileDbgPrintProfileMatch off.
CallOverrideComputePipelineCreateInfo ==
    /\ pc = "ready"
    /\ ~m_settings.pipelineProfileDbgPrintProfileMatch
    /\ \E c \in ComputeOverrideCalls :
          computeOverride' =
              [done |-> TRUE, pipelineKey |-> c[1], targetIn |-> c[2],
               targetOut |-> OverrideComputePipelineCreateInfo(
                                 m_appProfile, m_tuningProfile, m_runtimeProfile,
                                 c[1], c[2])]
    /\ UNCHANGED <<m_appProfile, m_tuningProfile, m_runtimeProfile>>
    /\ UNCHANGED <<matchCall, applyCall, pc, m_settings, env, parseErrors, overrideCall,
                   graphicsCall, graphicsOverride, freed, threadVars>>

\* ShaderOptimizer::~ShaderOptimizer
CallDestructor ==
    /\ pc = "ready"
    /\ pc' = "destroyed"
    /\ freed' = [m_appProfile |-> freed.m_appProfile + DestructorFrees(m_appProfile),
                 m_tuningProfile |->
                     freed.m_tuningProfile + DestructorFrees(m_tuningProfile),
                 m_runtimeProfile |->
                     freed.m_runtimeProfile + DestructorFrees(m_runtimeProfile)]
    /\ UNCHANGED <<matchCall, applyCall, m_settings, env, m_appProfile, m_tuningProfile,
                   m_runtimeProfile, parseErrors, overrideCall, graphicsCall,
                   graphicsOverride, computeOverride, threadVars>>

NextLifecycle ==
    \/ CallInitLifecycle
    \/ SpinInParseError
    \/ CallOverrideShaderCreateInfo
    \/ CallOverrideGraphicsPipelineCreateInfo
    \/ CallOverrideComputePipelineCreateInfo
    \/ CallDestructor

SpecLifecycle == Init /\ [][NextLifecycle]_vars

(***************************************************************************)
(* Properties of the lifecycle (checked under SpecLifecycle).              *)
(***************************************************************************)
\* Whether the allocation of a rule set's storage succeeded during Init.
AllocationSucceeded ==
    [m_appProfile |-> env.allocApp, m_tuningProfile |-> env.allocTuning,
     m_runtimeProfile |-> env.allocRuntime]

\* C19: over construct, Init, overrides and teardown, the storage of each rule set
\* that was allocated during Init is freed exactly once, by the destructor and not
\* before, also when the rule set holds no entry; storage whose allocation failed is
\* never freed.
C19_FreedExactlyOnce ==
    \A p \in DOMAIN freed :
        /\ (pc # "destroyed") => (freed[p] = 0)
        /\ (pc = "destroyed") =>
              (freed[p] = IF AllocationSucceeded[p] THEN 1 ELSE 0)

\* C19 witness: after teardown, with the tuning switch off and the runtime file
\* failing to parse (both rule sets allocated and empty) and the application's
\* allocation failed: tuning and runtime storage freed once, nothing for the
\* application.
C19_Witness ==
    /\ pc = "destroyed"
    /\ ~env.allocApp /\ env.allocTuning /\ env.allocRuntime
    /\ ~m_settings.overrideShaderParams /\ m_tuningProfile.entryCount = 0
    /\ parseErrors > 0 /\ m_runtimeProfile.entryCount = 0
    /\ overrideCall.done
    /\ freed = [m_appProfile |-> 0, m_tuningProfile |-> 1, m_runtimeProfile |-> 1]


(***************************************************************************)
(* Specification SpecThreads: after Init, each thread runs one             *)
(* OverrideGraphicsPipelineCreateInfo or OverrideComputePipelineCreateInfo *)
(* on its own target, step by step: the entry loop of the applicator over  *)
(* the three profiles, and inside PrintProfileEntryMatch the scope of      *)
(* "Util::MutexAuto lock(&m_printMutex)" with one step per printed line.   *)
(* A reached VK_NEVER_CALLED() reports and lets the function go on to its  *)
(* print, as the code after it is written to do.                           *)
(***************************************************************************)
engineVars ==
    <<matchCall, applyCall, pc, m_settings, env, m_appProfile, m_tuningProfile,
      m_runtimeProfile, parseErrors, overrideCall>>

\* The print switch on and off and the tuning switch on and off, with a rule in the
\* application and the runtime profile.
ThreadScenarios ==
    {<<[DefaultSettings EXCEPT !.pipelineProfileDbgPrintProfileMatch = dbg,
                               !.overrideShaderParams = tune,
                               !.overrideShaderStage = ShaderStageFragment,
                               !.overrideUsePbbPerCrc = "PipelineBinningModeDisable",
                               !.pipelineProfileRuntimeFile = "profile.json"],
       [DefaultEnv EXCEPT !.tableEntries = <<PipelineEntry(PatAlways, 1)>>,
                          !.fileOpens = TRUE, !.jsonBufferAlloc = TRUE, !.bytesRead = 1,
                          !.jsonParses = TRUE, !.deserializes = TRUE,
                          !.docEntries = <<PipelineEntry(PatHashA, MaxValue)>>]>> :
        dbg \in BOOLEAN, tune \in BOOLEAN}

\* A graphics key with two shaders present: its print has a header and two lines.
KeyGraphics ==
    [KeyA EXCEPT !.shaders[ShaderStageVertex] = [codeHash |-> EmptyHash, codeSize |-> 1]]

\* <<kind, key, stage mask, target>> of the override a thread runs.
ThreadCalls ==
    {<<"graphics", KeyGraphics, AllGraphicsStages, CallerGraphicsTarget>>,
     <<"compute", KeyCompute, 0, ZeroComputeTarget>>}

\* The profile the pass is in: the order of the calls in Override*PipelineCreateInfo.
ProfileAddrAt(profileIdx) ==
    CASE profileIdx = 1 -> "m_appProfile"
      [] profileIdx = 2 -> "m_tuningProfile"
      [] profileIdx = 3 -> "m_runtimeProfile"

ProfileAt(profileIdx) ==
    CASE profileIdx = 1 -> m_appProfile
      [] profileIdx = 2 -> m_tuningProfile
      [] profileIdx = 3 -> m_runtimeProfile

\* The first stage from stageIdx on whose code size is not zero (ShaderStageCount if
\* there is none): the next line of the stage loop of PrintProfileEntryMatch.
RECURSIVE NextPrintedStage(_, _)
NextPrintedStage(key, stageIdx) ==
    IF stageIdx >= ShaderStageCount THEN ShaderStageCount
    ELSE IF key.shaders[stageIdx].codeSize # 0 THEN stageIdx
    ELSE NextPrintedStage(key, stageIdx + 1)

\* ++entry, in the same profile.
NextEntry(th) == [th EXCEPT !.pc = "loop", !.entry = @ + 1]

CallInitThreads == InitFrom(ThreadScenarios)

\* The thread's record on entry to the override of call c, with the caller's arguments;
\* made lists the overrides the thread has called.
EnterOverride(th, c) ==
    [pc |-> "loop", kind |-> c[1], pipelineKey |-> c[2], shaderStages |-> c[3],
     shaderStage |-> ShaderStageVertex, preV45 |-> FALSE,
     targetIn |-> c[4], target |-> c[4], profileIdx |-> 1, entry |-> 0,
     stageIdx |-> 0, made |-> Append(th.made, c[1])]

\* A thread enters OverrideGraphicsPipelineCreateInfo or
\* OverrideComputePipelineCreateInfo.
StartOverride(t) ==
    /\ pc = "ready"
    /\ threads[t].pc = "idle"
    /\ \E c \in ThreadCalls :
          threads' = [threads EXCEPT ![t] = EnterOverride(threads[t], c)]
    /\ UNCHANGED <<engineVars, graphicsCall, lifeVars, m_printMutex, dbgLines>>

\* One turn of "for (entry = 0; entry < profile.entryCount; ++entry)": the loop test,
\* the pattern match and the stores of the body of the applicator the thread is in.
\* The profile the turn leaves is the one its stores leave.  ApplyProfileToShaderCreateInfo makes no call of
\* PrintProfileEntryMatch.
EntryLoopStep(t) ==
    LET th == threads[t]
        profile == ProfileAt(th.profileIdx)
        inRange == th.entry < profile.entryCount
        matches ==
            /\ inRange
            /\ ProfilePatternMatchesPipeline(profile.pEntries[th.entry + 1].pattern,
                                             th.pipelineKey)
        before == [profile |-> profile, target |-> th.target]
        body ==
            CASE th.kind = "shader" ->
                     ShaderEntryBody(before, th.entry, th.pipelineKey, th.shaderStage,
                                     th.preV45)
              [] th.kind = "graphics" ->
                     GraphicsEntryBody(before, th.entry, th.shaderStages)
              [] th.kind = "compute" -> ComputeEntryBody(before, th.entry)
        after == IF matches THEN body ELSE before
        prints ==
            th.kind # "shader" /\ m_settings.pipelineProfileDbgPrintProfileMatch
    IN  /\ th.pc = "loop"
        /\ threads' = [threads EXCEPT ![t] =
               IF ~inRange
               THEN IF th.profileIdx = 3 THEN [th EXCEPT !.pc = "done"]
                    ELSE [th EXCEPT !.profileIdx = @ + 1, !.entry = 0]
               ELSE IF matches
               THEN IF prints
                    THEN [th EXCEPT !.target = after.target, !.pc = "lock"]
                    ELSE NextEntry([th EXCEPT !.target = after.target])
               ELSE NextEntry(th)]
        /\ m_appProfile' = IF th.profileIdx = 1 THEN after.profile ELSE m_appProfile
        /\ m_tuningProfile' = IF th.profileIdx = 2 THEN after.profile ELSE m_tuningProfile
        /\ m_runtimeProfile' =
               IF th.profileIdx = 3 THEN after.profile ELSE m_runtimeProfile
        /\ UNCHANGED <<matchCall, applyCall, pc, m_settings, env, parseErrors,
                       overrideCall, graphicsCall, lifeVars, m_printMutex, dbgLines>>

AcquirePrintMutex_NoWait(t) ==
    /\ threads[t].pc = "lock"
    /\ m_printMutex' = t
    /\ threads' = [threads EXCEPT ![t].pc = "header"]
    /\ UNCHANGED <<engineVars, graphicsCall, lifeVars, dbgLines>>

\* Util::MutexAuto lock(&m_printMutex): waits until the mutex is free.
AcquirePrintMutex(t) ==
    /\ threads[t].pc = "lock"
    /\ m_printMutex = 0
    /\ m_printMutex' = t
    /\ threads' = [threads EXCEPT ![t].pc = "header"]
    /\ UNCHANGED <<engineVars, graphicsCall, lifeVars, dbgLines>>

\* The first DbgPrintf: "<profile> pipeline profile entry <index> triggered ...".
PrintHeader(t) ==
    LET th == threads[t]
    IN  /\ th.pc = "header"
        /\ dbgLines' = Append(dbgLines,
               [thread |-> t, profileIdx |-> th.profileIdx, index |-> th.entry,
                header |-> TRUE, text |-> ProfileName(ProfileAddrAt(th.profileIdx)),
                neverCalled |-> ProfileNeverCalled(ProfileAddrAt(th.profileIdx))])
        /\ threads' = [threads EXCEPT ![t].pc = "stages", ![t].stageIdx = 0]
        /\ UNCHANGED <<engineVars, graphicsCall, lifeVars, m_printMutex>>

\* The stage loop up to and including the next DbgPrintf of a stage line.
PrintStage(t) ==
    LET th == threads[t]
        stageIdx == NextPrintedStage(th.pipelineKey, th.stageIdx)
    IN  /\ th.pc = "stages"
        /\ stageIdx < ShaderStageCount
        /\ dbgLines' = Append(dbgLines,
               [thread |-> t, profileIdx |-> th.profileIdx, index |-> th.entry,
                header |-> FALSE, text |-> StageName(stageIdx), neverCalled |-> FALSE])
        /\ threads' = [threads EXCEPT ![t].stageIdx = stageIdx + 1]
        /\ UNCHANGED <<engineVars, graphicsCall, lifeVars, m_printMutex>>

\* The rest of the stage loop and the end of the scope of the MutexAuto.
ReleasePrintMutex(t) ==
    LET th == threads[t]
    IN  /\ th.pc = "stages"
        /\ NextPrintedStage(th.pipelineKey, th.stageIdx) = ShaderStageCount
        /\ m_printMutex' = 0
        /\ threads' = [threads EXCEPT ![t] = NextEntry(th)]
        /\ UNCHANGED <<engineVars, graphicsCall, lifeVars, dbgLines>>

ThreadStep(t) ==
    \/ StartOverride(t)
    \/ EntryLoopStep(t)
    \/ AcquirePrintMutex(t)
    \/ PrintHeader(t)
    \/ PrintStage(t)
    \/ ReleasePrintMutex(t)

NextThreads ==
    \/ CallInitThreads
    \/ \E t \in Threads : StartOverride(t)
    \/ \E t \in Threads : EntryLoopStep(t)
    \/ \E t \in Threads : AcquirePrintMutex(t)
    \/ \E t \in Threads : PrintHeader(t)
    \/ \E t \in Threads : PrintStage(t)
    \/ \E t \in Threads : ReleasePrintMutex(t)

\* Init is called, the pipeline-creating threads call an override, and a running
\* thread keeps being scheduled.
SpecThreads ==
    /\ Init /\ [][NextThreads]_vars
    /\ WF_vars(CallInitThreads)
    /\ \A t \in Threads : WF_vars(ThreadStep(t))

(***************************************************************************)
(* Properties of the diagnostic print (checked under SpecThreads).         *)
(***************************************************************************)
PrintSwitchOn == m_settings.pipelineProfileDbgPrintProfileMatch

\* The header lines a thread has printed for the rule at index i of profile p.
HeadersOf(t, p, i) ==
    {k \in 1..Len(dbgLines) :
        /\ dbgLines[k].header
        /\ dbgLines[k].thread = t
        /\ dbgLines[k].profileIdx = p
        /\ dbgLines[k].index = i}

\* The name a header has to show for the rule set at position p of the pass: the
\* application's and the runtime's by their names, the tuning rule set by a name that
\* is neither of those nor that of an unknown rule set.
NamesRuleSet(text, p) ==
    CASE p = 1 -> text = "Application"
      [] p = 2 -> text \notin {"Application", "Runtime", "Unknown profile"}
      [] p = 3 -> text = "Runtime"

RuleSetAt(p) ==
    CASE p = 1 -> m_appProfile
      [] p = 2 -> m_tuningProfile
      [] p = 3 -> m_runtimeProfile

\* The target a pass leaves when nothing is printed.
TargetWithoutPrint(th) ==
    IF th.kind = "graphics"
    THEN OverrideGraphicsPipelineCreateInfo(m_appProfile, m_tuningProfile,
             m_runtimeProfile, th.pipelineKey, th.shaderStages, th.targetIn)
    ELSE OverrideComputePipelineCreateInfo(m_appProfile, m_tuningProfile,
             m_runtimeProfile, th.pipelineKey, th.targetIn)

\* C16: with the per-match diagnostic switch on, OverrideGraphicsPipelineCreateInfo and
\* OverrideComputePipelineCreateInfo leave the target as they do with the switch off,
\* and for every matching rule of the application, tuning and runtime rule sets the
\* diagnostic names the rule set of the match and never reaches a branch asserted as
\* never called.
C16_Original ==
    \A t \in Threads :
        (PrintSwitchOn /\ threads[t].pc = "done") =>
            /\ threads[t].target = TargetWithoutPrint(threads[t])
            /\ \A p \in 1..3 :
                  \A i \in MatchingEntries(RuleSetAt(p), threads[t].pipelineKey) :
                      /\ Cardinality(HeadersOf(t, p, i - 1)) = 1
                      /\ \A k \in HeadersOf(t, p, i - 1) :
                            /\ ~dbgLines[k].neverCalled
                            /\ NamesRuleSet(dbgLines[k].text, p)

\* With the tuning switch off (no tuning rule) every print names its rule set.
C16_HoldsWithoutTuning ==
    m_settings.overrideShaderParams \/ C16_Original

\* The threads between the first and the last line of a print.
InsidePrint == {t \in Threads : threads[t].pc \in {"header", "stages"}}

\* Two lines belong to the same print.
SamePrint(a, b) ==
    a.thread = b.thread /\ a.profileIdx = b.profileIdx /\ a.index = b.index

\* The lines of every print are consecutive in the output.
PrintsNotInterleaved ==
    \A i, j, k \in 1..Len(dbgLines) :
        (i < j /\ j < k /\ SamePrint(dbgLines[i], dbgLines[k]))
            => SamePrint(dbgLines[i], dbgLines[j])

\* A thread holds the print mutex only between the first and the last line of its
\* print: not while it tests the loop, evaluates a pattern or writes its target.
MutexHeldOnlyInPrint ==
    \A t \in Threads : (m_printMutex = t) <=> (t \in InsidePrint)

\* C17: with several threads running pipeline-level overrides and the diagnostics on,
\* the lines of one match's print are never interleaved with those of another, at most
\* one thread is inside the critical section of PrintProfileEntryMatch, no thread
\* holds the print lock while it evaluates a pattern or writes a target field, and
\* every thread's override pass eventually completes.
C17_PrintsSerialized ==
    /\ [](Cardinality(InsidePrint) <= 1)
    /\ []PrintsNotInterleaved
    /\ []MutexHeldOnlyInPrint
    /\ \A t \in Threads : (threads[t].pc # "idle") ~> (threads[t].pc = "done")

\* C17 witness: one thread is in the middle of a print while the other, which has
\* printed before, waits for the mutex with a match of its own.
C17_Witness ==
    \E t, u \in Threads :
        /\ t # u
        /\ threads[t].pc = "stages" /\ threads[t].stageIdx > 0
        /\ m_printMutex = t
        /\ threads[u].pc = "lock"
        /\ \E i \in 1..Len(dbgLines) : dbgLines[i].thread = u
        /\ \E i \in 1..Len(dbgLines) : dbgLines[i].thread = t

(***************************************************************************)
(* Specification SpecOverrides: after Init, each thread calls              *)
(* OverrideShaderCreateInfo, OverrideGraphicsPipelineCreateInfo and        *)
(* OverrideComputePipelineCreateInfo, one call after the other and in any  *)
(* order, on a target of its own; the calls of the two threads run step by *)
(* step against the same three profiles, each step being a turn of an      *)
(* entry loop.  m_settings.pipelineProfileDbgPrintProfileMatch is off, so  *)
(* that no pass enters PrintProfileEntryMatch (with it on, a pass takes    *)
(* the steps of SpecThreads between two turns).                            *)
(***************************************************************************)
MaxOverrides == 2    \* each thread makes up to MaxOverrides override calls

\* <<kind, key, stage or stage mask, target, preV45>> of the calls.
OverrideCalls ==
    {<<"shader", KeyA, ShaderStageFragment, CallerOptions, TRUE>>,
     <<"graphics", KeyGraphics, AllGraphicsStages, CallerGraphicsTarget, FALSE>>,
     <<"compute", KeyCompute, 0, ZeroComputeTarget, FALSE>>}

\* Init with the print switch off and the tuning switch on and off, with a rule in
\* the application and the runtime profile.
CallInitOverrides ==
    InitFrom({sc \in ThreadScenarios : ~sc[1].pipelineProfileDbgPrintProfileMatch})

\* A thread enters one of the three overrides.
StartAnyOverride(t) ==
    /\ pc = "ready"
    /\ threads[t].pc = "idle"
    /\ \E c \in OverrideCalls :
          threads' = [threads EXCEPT ![t] =
              IF c[1] = "shader"
              THEN [EnterOverride(threads[t], c) EXCEPT
                       !.shaderStages = 0, !.shaderStage = c[3], !.preV45 = c[5]]
              ELSE EnterOverride(threads[t], c)]
    /\ UNCHANGED <<engineVars, graphicsCall, lifeVars, m_printMutex, dbgLines>>

\* The override returns to its caller, which goes on to its next call.
ReturnFromOverride(t) ==
    /\ threads[t].pc = "done"
    /\ Len(threads[t].made) < MaxOverrides
    /\ threads' = [threads EXCEPT ![t].pc = "idle"]
    /\ UNCHANGED <<engineVars, graphicsCall, lifeVars, m_printMutex, dbgLines>>

NextOverrides ==
    \/ CallInitOverrides
    \/ \E t \in Threads : StartAnyOverride(t)
    \/ \E t \in Threads : EntryLoopStep(t)
    \/ \E t \in Threads : ReturnFromOverride(t)

SpecOverrides == Init /\ [][NextOverrides]_vars

(***************************************************************************)
(* Properties of the rule sets under the overrides (checked under          *)
(* SpecOverrides).                                                         *)
(***************************************************************************)
\* C18: once Init has returned, no step of any sequence or interleaving of
\* OverrideShaderCreateInfo, OverrideGraphicsPipelineCreateInfo and
\* OverrideComputePipelineCreateInfo calls changes the entries, entryCount or
\* entryCapacity of any of the three rule sets.
C18_RuleSetsImmutable ==
    [][(pc = "ready" /\ pc' = "ready") =>
          /\ m_appProfile' = m_appProfile
          /\ m_tuningProfile' = m_tuningProfile
          /\ m_runtimeProfile' = m_runtimeProfile]_vars

\* C18 witness: two calls are in progress at once on rule sets that all hold a rule:
\* one thread is inside the entry loops of OverrideShaderCreateInfo and the other,
\* which has called OverrideComputePipelineCreateInfo before, inside those of
\* OverrideGraphicsPipelineCreateInfo; both have passed the application's rule set
\* and have written their targets.
C18_Witness ==
    \E t, u \in Threads :
        /\ pc = "ready"
        /\ m_appProfile.entryCount = 1
        /\ m_tuningProfile.entryCount = 1
        /\ m_runtimeProfile.entryCount = 1
        /\ threads[t].kind = "shader" /\ threads[t].pc = "loop"
        /\ threads[t].profileIdx > 1
        /\ threads[t].target # threads[t].targetIn
        /\ threads[u].kind = "graphics" /\ threads[u].pc = "loop"
        /\ threads[u].profileIdx > 1
        /\ threads[u].made = <<"compute", "graphics">>
        /\ threads[u].target # threads[u].targetIn

====
